---- MODULE Spec2Model ----
(***************************************************************************)
(* A model of the autoevals scorers (py/autoevals): the Score value type,  *)
(* the primitive scorers, ListContains and JSONDiff.                       *)
(*                                                                         *)
(* Python values are tagged records of one shape (PyNone, PyNum, PyStr,    *)
(* PyList, PyDict); a str is the sequence of its characters and a dict the *)
(* sequence of its entries in insertion order.  Scores are exact rationals *)
(* [n, d] in lowest terms with d > 0; Python's None score is NoScore.      *)
(***************************************************************************)
EXTENDS Integers, Sequences, FiniteSets, TLC

VARIABLES
    ctor,          \* the arguments of a Score(...) construction
    listContains,  \* the ListContains instance: pairwise_scorer, allow_extra_entities
    jsonDiff,      \* the JSONDiff instance: string_scorer, number_scorer, preserve_strings
    embeddingSimilarity,  \* the EmbeddingSimilarity instance: prefix, model, expected_min
    llmClassifier, \* the OpenAILLMClassifier instance: name, choice_scores
    CACHE,         \* EmbeddingSimilarity._CACHE, shared by all instances
    requests,      \* the embedding requests sent to the provider, with its answers
    embedded,      \* the two embeddings the last EmbeddingSimilarity evaluation compared
    call,          \* the evaluation requested: scorer, entry point, output, expected
    result,        \* what the caller gets back: a Score or a raised error
    subcalls,      \* the pairwise calls made by a ListContains evaluation, in order
    matched,       \* the (row, column) pairs the assignment solver returned
    retries,       \* run_cached_request: the rate-limit failures counted so far
    sleep_time,    \* run_cached_request: the current backoff, as a Backoff record
    slept,         \* the durations passed to time.sleep / asyncio.sleep, in order
    client_var,    \* oai._client_var
    default_model_var,            \* oai._default_model_var
    default_embedding_model_var,  \* oai._default_embedding_model_var
    provider,      \* the answers the provider gives to a Faithfulness evaluation
    tasks          \* the concurrent _embed / _a_embed calls: value, position, embedding

instances == <<ctor, listContains, jsonDiff, embeddingSimilarity, llmClassifier>>
boundary == <<retries, sleep_time, slept>>
defaults == <<client_var, default_model_var, default_embedding_model_var>>
vars == <<instances, CACHE, requests, embedded, call, result, subcalls, matched,
          boundary, defaults, provider, tasks>>

-----------------------------------------------------------------------------
(* Bounds of the model *)

\* Score arguments are the multiples of 1/ScoreGrid in [-1, 2].
ScoreGrid == 4
\* Lists handed to ListContains have at most MaxLen items.
MaxLen == 2
\* Lists inside the JSON documents have at most MaxJsonLen items.
MaxJsonLen == 2
\* Rounded square roots are multiples of 1/RootGrid.
RootGrid == 100

-----------------------------------------------------------------------------
(* Exact rationals *)

Abs(x) == IF x < 0 THEN -x ELSE x

RECURSIVE Gcd(_, _)
Gcd(a, b) == IF b = 0 THEN a ELSE Gcd(b, a % b)

\* n/d in lowest terms, d # 0.
Rat(n, d) ==
    LET g == Gcd(Abs(n), Abs(d))
        s == IF d < 0 THEN -1 ELSE 1
    IN  [n |-> (s * n) \div g, d |-> (s * d) \div g]

RInt(k) == [n |-> k, d |-> 1]
Zero == RInt(0)
One == RInt(1)
\* Python's None in the place of a float.
NoScore == [n |-> 0, d |-> 0]

RAdd(a, b) == Rat(a.n * b.d + b.n * a.d, a.d * b.d)
RSub(a, b) == Rat(a.n * b.d - b.n * a.d, a.d * b.d)
RNeg(a) == [n |-> -a.n, d |-> a.d]
RMul(a, b) == Rat(a.n * b.n, a.d * b.d)
RDiv(a, b) == Rat(a.n * b.d, a.d * b.n)
RLt(a, b) == a.n * b.d < b.n * a.d
RLe(a, b) == a.n * b.d <= b.n * a.d
RMin(a, b) == IF RLt(b, a) THEN b ELSE a
RMax(a, b) == IF RLt(a, b) THEN b ELSE a

RECURSIVE RSum(_)
RSum(seq) == IF seq = <<>> THEN Zero ELSE RAdd(Head(seq), RSum(Tail(seq)))

-----------------------------------------------------------------------------
(* Python values *)

PyNone == [t |-> "none", n |-> 0, s |-> <<>>, l |-> <<>>, d |-> <<>>]
PyNum(k) == [t |-> "num", n |-> k, s |-> <<>>, l |-> <<>>, d |-> <<>>]
PyStr(chars) == [t |-> "str", n |-> 0, s |-> chars, l |-> <<>>, d |-> <<>>]
PyList(items) == [t |-> "list", n |-> 0, s |-> <<>>, l |-> items, d |-> <<>>]
PyDict(entries) == [t |-> "dict", n |-> 0, s |-> <<>>, l |-> <<>>, d |-> entries]

IsNone(v) == v.t = "none"

\* All sequences over S of length at most k.
SeqsUpTo(S, k) == UNION {[1..m -> S] : m \in 0..k}

-----------------------------------------------------------------------------
(* score.py: the Score value type *)

Pending ==
    [kind |-> "Pending", name |-> "", score |-> NoScore, metadata |-> <<>>, exc |-> ""]

Raise(exc) ==
    [kind |-> "Raise", name |-> "", score |-> NoScore, metadata |-> <<>>, exc |-> exc]

\* A range check that also rejects the upper boundary.
Score_mutExclusive(name, score, metadata) ==
    IF score # NoScore /\ (RLt(score, Zero) \/ RLe(One, score))
    THEN Raise("ValueError")
    ELSE [kind |-> "Score", name |-> name, score |-> score,
          metadata |-> metadata, exc |-> ""]

\* Score(name, score, metadata) with __post_init__'s range check.
Score(name, score, metadata) ==
    IF score # NoScore /\ (RLt(score, Zero) \/ RLt(One, score))
    THEN Raise("ValueError")
    ELSE [kind |-> "Score", name |-> name, score |-> score,
          metadata |-> metadata, exc |-> ""]

-----------------------------------------------------------------------------
(* str() and repr() of a Python value, as a sequence of characters *)

Digit(k) == <<"0", "1", "2", "3", "4", "5", "6", "7", "8", "9">>[k + 1]

RECURSIVE NatChars(_)
NatChars(k) ==
    IF k < 10 THEN <<Digit(k)>> ELSE NatChars(k \div 10) \o <<Digit(k % 10)>>

IntChars(k) == IF k < 0 THEN <<"-">> \o NatChars(-k) ELSE NatChars(k)

RECURSIVE Repr(_)
RECURSIVE ReprItems(_)
RECURSIVE ReprEntries(_)
Repr(v) ==
    CASE v.t = "none" -> <<"N", "o", "n", "e">>
      [] v.t = "num" -> IntChars(v.n)
      [] v.t = "str" -> <<"'">> \o v.s \o <<"'">>
      [] v.t = "list" -> <<"[">> \o ReprItems(v.l) \o <<"]">>
      [] v.t = "dict" -> <<"{">> \o ReprEntries(v.d) \o <<"}">>
ReprItems(items) ==
    IF items = <<>> THEN <<>>
    ELSE IF Len(items) = 1 THEN Repr(items[1])
    ELSE Repr(items[1]) \o <<",", " ">> \o ReprItems(Tail(items))
ReprEntries(entries) ==
    IF entries = <<>> THEN <<>>
    ELSE LET e == <<"'">> \o entries[1].k \o <<"'", ":", " ">> \o Repr(entries[1].v)
         IN  IF Len(entries) = 1 THEN e ELSE e \o <<",", " ">> \o ReprEntries(Tail(entries))

\* str(value): a str is itself, everything else prints as its repr.
Str(v) == IF v.t = "str" THEN v.s ELSE Repr(v)

-----------------------------------------------------------------------------
(* string.py: Levenshtein *)

Min2(a, b) == IF a < b THEN a ELSE b
Max2(a, b) == IF a < b THEN b ELSE a

\* One more row of the edit-distance table: `row` holds the distances of a
\* prefix of a to b[1..j-1] (its first entry is for the empty prefix of b),
\* `prev` the full row before it.
RECURSIVE DistanceRow(_, _, _, _)
DistanceRow(prev, ch, b, row) ==
    IF Len(row) = Len(prev) THEN row
    ELSE DistanceRow(prev, ch, b,
            Append(row,
                Min2(Min2(prev[Len(row) + 1] + 1, row[Len(row)] + 1),
                     prev[Len(row)] + (IF b[Len(row)] = ch THEN 0 ELSE 1))))

RECURSIVE DistanceFrom(_, _, _, _)
DistanceFrom(a, b, i, prev) ==
    IF i > Len(a) THEN prev[Len(prev)]
    ELSE DistanceFrom(a, b, i + 1, DistanceRow(prev, a[i], b, <<prev[1] + 1>>))

\* polyleven.levenshtein: the edit distance of two strings.
distance(a, b) == DistanceFrom(a, b, 1, [j \in 1..(Len(b) + 1) |-> j - 1])

Levenshtein_run_eval_sync(output, expected) ==
    IF IsNone(expected) THEN Raise("ValueError")
    ELSE LET o == Str(output)
             e == Str(expected)
             max_len == Max2(Len(o), Len(e))
             score == IF max_len > 0
                      THEN RSub(One, Rat(distance(o, e), max_len))
                      ELSE One
         IN  Score("Levenshtein", score, <<>>)

\* Scorer._run_eval_async: by default the sync version.
Levenshtein_run_eval_async(output, expected) ==
    Levenshtein_run_eval_sync(output, expected)

\* Scorer.eval and Scorer.eval_async.
Levenshtein_eval(entry, output, expected) ==
    IF entry = "eval_async"
    THEN Levenshtein_run_eval_async(output, expected)
    ELSE Levenshtein_run_eval_sync(output, expected)

-----------------------------------------------------------------------------
(* number.py: NumericDiff *)

\* A relative difference without the case of two zeros: the division fails.
NumericDiff_run_eval_sync_mutNoZeroCase(output, expected) ==
    IF IsNone(expected) THEN Raise("ValueError")
    ELSE IF expected.n = 0 /\ output.n = 0 THEN Raise("ZeroDivisionError")
    ELSE Score("NumericDiff",
               RSub(One, Rat(Abs(expected.n - output.n),
                             Abs(expected.n) + Abs(output.n))),
               <<>>)

NumericDiff_run_eval_sync(output, expected) ==
    IF IsNone(expected) THEN Raise("ValueError")
    ELSE LET score == IF expected.n = 0 /\ output.n = 0 THEN One
                      ELSE RSub(One, Rat(Abs(expected.n - output.n),
                                         Abs(expected.n) + Abs(output.n)))
         IN  Score("NumericDiff", score, <<>>)

NumericDiff_run_eval_async(output, expected) ==
    NumericDiff_run_eval_sync(output, expected)

NumericDiff_eval(entry, output, expected) ==
    IF entry = "eval_async"
    THEN NumericDiff_run_eval_async(output, expected)
    ELSE NumericDiff_run_eval_sync(output, expected)

-----------------------------------------------------------------------------
(* A pairwise scorer handed to ListContains: Levenshtein (the default), or  *)
(* a caller's Scorer subclass that scores like Levenshtein except when one  *)
(* of the two items is `at`, where it raises, returns a Score of None, or    *)
(* returns a Score whose score it set to 2 or to -1 after constructing it.  *)

DefaultPairwise == [cls |-> "Levenshtein", fault |-> "none", at |-> PyNone]

\* A Score whose score field was assigned after construction: the dataclass
\* is not frozen and __post_init__ does not run again.
Reassigned(name, score) ==
    [kind |-> "Score", name |-> name, score |-> score,
     metadata |-> <<>>, exc |-> ""]

Pairwise_run_eval_sync(scorer, output, expected) ==
    IF scorer.cls = "Levenshtein" THEN Levenshtein_run_eval_sync(output, expected)
    ELSE IF (scorer.at = output \/ scorer.at = expected) /\ scorer.fault = "raise"
    THEN Raise("RuntimeError")
    ELSE IF (scorer.at = output \/ scorer.at = expected) /\ scorer.fault = "null"
    THEN Score(scorer.cls, NoScore, <<>>)
    ELSE IF (scorer.at = output \/ scorer.at = expected) /\ scorer.fault = "above"
    THEN Reassigned(scorer.cls, RInt(2))
    ELSE IF (scorer.at = output \/ scorer.at = expected) /\ scorer.fault = "below"
    THEN Reassigned(scorer.cls, RInt(-1))
    ELSE Levenshtein_run_eval_sync(output, expected)

\* Scorer._run_eval_async: by default the sync version.
Pairwise_run_eval_async(scorer, output, expected) ==
    Pairwise_run_eval_sync(scorer, output, expected)

-----------------------------------------------------------------------------
(* list.py: ListContains *)

\* The (row, column) of the k-th pairwise call, rows outermost.
CellOf(k, cols) == <<((k - 1) \div cols) + 1, ((k - 1) % cols) + 1>>

\* The outcome of every pairwise call of the matrix, rows outermost.
PairwiseOutcomes(scorer, output, expected, async) ==
    [k \in 1..(Len(output.l) * Len(expected.l)) |->
        IF async
        THEN Pairwise_run_eval_async(scorer,
                                     output.l[CellOf(k, Len(expected.l))[1]],
                                     expected.l[CellOf(k, Len(expected.l))[2]])
        ELSE Pairwise_run_eval_sync(scorer,
                                    output.l[CellOf(k, Len(expected.l))[1]],
                                    expected.l[CellOf(k, Len(expected.l))[2]])]

\* The first call that raises, 0 when none does.
FirstRaise(outcomes) ==
    IF \A k \in 1..Len(outcomes) : outcomes[k].kind # "Raise" THEN 0
    ELSE CHOOSE k \in 1..Len(outcomes) :
            /\ outcomes[k].kind = "Raise"
            /\ \A j \in 1..(k - 1) : outcomes[j].kind # "Raise"

CallsMade(output, expected, made) ==
    [k \in 1..made |->
        <<output.l[CellOf(k, Len(expected.l))[1]],
          expected.l[CellOf(k, Len(expected.l))[2]]>>]

\* A run that scores a raising pairwise call 0 and goes on.
RunSummary_mutSwallow(output, expected, outcomes, first) ==
    [raised |-> FALSE,
     exc |-> "",
     similarities |->
        [i \in 1..Len(output.l) |-> [j \in 1..Len(expected.l) |->
            IF outcomes[(i - 1) * Len(expected.l) + j].kind = "Raise" THEN Zero
            ELSE outcomes[(i - 1) * Len(expected.l) + j].score]],
     calls |-> CallsMade(output, expected, Len(outcomes))]

\* The pairwise calls of one evaluation, in the order they are made (sync) or
\* awaited (async), up to and including the first one that raises:
\* [raised, exc, similarities, calls].
RunSummary(output, expected, outcomes, first) ==
    [raised |-> first # 0,
     exc |-> IF first = 0 THEN "" ELSE outcomes[first].exc,
     similarities |->
        IF first # 0 THEN <<>>
        ELSE [i \in 1..Len(output.l) |-> [j \in 1..Len(expected.l) |->
                outcomes[(i - 1) * Len(expected.l) + j].score]],
     calls |-> CallsMade(output, expected,
                         IF first = 0 THEN Len(outcomes) ELSE first)]

RunOutcomes(output, expected, outcomes) ==
    RunSummary(output, expected, outcomes, FirstRaise(outcomes))

RunPairwise(scorer, output, expected, async) ==
    RunOutcomes(output, expected, PairwiseOutcomes(scorer, output, expected, async))

\* The one-to-one functions from 1..n into 1..m.
Injections(n, m) == {f \in [1..n -> 1..m] : \A i, j \in 1..n : i # j => f[i] # f[j]}

\* The (row, column) pairs ordered by row, as scipy returns them.
RECURSIVE ByRow(_)
ByRow(pairs) ==
    IF pairs = {} THEN <<>>
    ELSE LET p == CHOOSE p \in pairs : \A q \in pairs : p[1] <= q[1]
         IN  <<p>> \o ByRow(pairs \ {p})

\* Every complete assignment of an n x m matrix: min(n, m) pairs, no row and
\* no column twice.
Assignments(n, m) ==
    IF n <= m
    THEN {[i \in 1..n |-> <<i, f[i]>>] : f \in Injections(n, m)}
    ELSE {ByRow({<<g[j], j>> : j \in 1..m}) : g \in Injections(m, n)}

AssignmentCost(cost, asg) == RSum([k \in 1..Len(asg) |-> cost[asg[k][1]][asg[k][2]]])

\* Row by row, the cheapest column not yet taken.
RECURSIVE GreedyRows(_, _, _)
GreedyRows(cost, i, used) ==
    LET free == (1..Len(cost[1])) \ used
    IN  IF i > Len(cost) \/ free = {} THEN <<>>
        ELSE LET best == CHOOSE c \in free : \A c2 \in free :
                            \/ RLt(cost[i][c], cost[i][c2])
                            \/ (cost[i][c] = cost[i][c2] /\ c <= c2)
             IN  <<(<<i, best>>)>> \o GreedyRows(cost, i + 1, used \cup {best})

linear_sum_assignment_mutGreedy(cost) == {GreedyRows(cost, 1, {})}

\* scipy.optimize.linear_sum_assignment(cost): the complete assignments of
\* minimal total cost; which of several minimal ones is returned is not
\* specified.
\* The least of a non-empty set of rationals.
RLeast(S) == CHOOSE x \in S : \A y \in S : RLe(x, y)

CostIs(cost, all, least) == {a \in all : AssignmentCost(cost, a) = least}

MinimalCost(cost, all) ==
    CostIs(cost, all, RLeast({AssignmentCost(cost, a) : a \in all}))

linear_sum_assignment(cost) == MinimalCost(cost, Assignments(Len(cost), Len(cost[1])))

\* A null similarity counted as a full match.
OrZero_mutOne(d) == IF d = NoScore THEN One ELSE d

\* d or 0
OrZero(d) == IF d = NoScore \/ d = Zero THEN Zero ELSE d

\* [[d or 0 for d in row] for row in similarities]
OrZeroAll(similarities) ==
    [i \in 1..Len(similarities) |->
        [j \in 1..Len(similarities[i]) |-> OrZero(similarities[i][j])]]

\* The similarities taken as costs, without the negation.
Distances_mutNoNegate(similarities) == similarities

\* -np.array(similarities)
Distances(similarities) ==
    [i \in 1..Len(similarities) |->
        [j \in 1..Len(similarities[i]) |-> RNeg(similarities[i][j])]]

\* With the flag, the outputs that expecteds has no room for.
Denominator_mutSurplus(allow_extra_entities, outputs, expecteds) ==
    IF ~allow_extra_entities
    THEN Max2(Len(outputs.l), Len(expecteds.l))
    ELSE Max2(Len(outputs.l), Len(expecteds.l)) - Len(expecteds.l)

\* The larger length whatever the flag.
Denominator_mutMax(allow_extra_entities, outputs, expecteds) ==
    Max2(Len(outputs.l), Len(expecteds.l))

\* With the flag, the length of the outputs.
Denominator_mutOutputs(allow_extra_entities, outputs, expecteds) ==
    IF ~allow_extra_entities
    THEN Max2(Len(outputs.l), Len(expecteds.l))
    ELSE Len(outputs.l)

Denominator(allow_extra_entities, outputs, expecteds) ==
    IF ~allow_extra_entities
    THEN Max2(Len(outputs.l), Len(expecteds.l))
    ELSE Len(expecteds.l)

\* 'or' where the code has 'and': 1 as soon as one list is empty.
EmptyScore_mutEither(outputs, expecteds) == One

\* The score _compute_score returns when a list is empty.
EmptyScore(outputs, expecteds) ==
    IF Len(outputs.l) = 0 /\ Len(expecteds.l) = 0 THEN One ELSE Zero

\* The Score _compute_score builds from the assignment asg = (row_ind, col_ind).
MatchedScore(outputs, expecteds, similarities, lowest_distances, denominator, asg) ==
    IF ~(Len(lowest_distances) <= denominator)
    THEN Raise("AssertionError")
    ELSE Score("ListContains",
               RMin(RMax(RDiv(RSum([k \in 1..Len(asg) |-> RNeg(lowest_distances[k])]),
                              RInt(denominator)),
                         Zero),
                    One),
               [k \in 1..Len(asg) |->
                   [output |-> outputs.l[asg[k][1]],
                    expected |-> expecteds.l[asg[k][2]],
                    similarity |-> similarities[asg[k][1]][asg[k][2]]]])

MatchedResults(self, outputs, expecteds, similarities, distances) ==
    {[result |->
        MatchedScore(outputs, expecteds, similarities,
                     [k \in 1..Len(asg) |-> distances[asg[k][1]][asg[k][2]]],
                     Denominator(self.allow_extra_entities, outputs, expecteds),
                     asg),
      matched |-> asg] :
        asg \in linear_sum_assignment(distances)}

\* What _compute_score may return, as [result, matched]: one Score for each
\* assignment (row_ind, col_ind) the solver may return.
ListContains_compute_score(self, outputs, expecteds, similarities) ==
    IF Len(outputs.l) = 0 \/ Len(expecteds.l) = 0
    THEN {[result |-> Score("ListContains", EmptyScore(outputs, expecteds), <<>>),
           matched |-> <<>>]}
    ELSE MatchedResults(self, outputs, expecteds, OrZeroAll(similarities),
                        Distances(OrZeroAll(similarities)))

Raised(exc, calls) == [result |-> Raise(exc), subcalls |-> calls, matched |-> <<>>]

\* What the evaluation returns once its pairwise calls have run.
AfterPairwise(self, output, expected, run) ==
    IF run.raised THEN {Raised(run.exc, run.calls)}
    ELSE {[result |-> r.result, subcalls |-> run.calls, matched |-> r.matched] :
            r \in ListContains_compute_score(self, output, expected, run.similarities)}

\* The outcomes [result, subcalls, matched] of one evaluation.
ListContains_run_eval_sync(self, output, expected) ==
    IF IsNone(expected) THEN {Raised("ValueError", <<>>)}
    ELSE AfterPairwise(self, output, expected,
                       RunPairwise(self.pairwise_scorer, output, expected, FALSE))

ListContains_run_eval_async(self, output, expected) ==
    IF IsNone(expected) THEN {Raised("ValueError", <<>>)}
    ELSE AfterPairwise(self, output, expected,
                       RunPairwise(self.pairwise_scorer, output, expected, TRUE))

\* Scorer.eval and Scorer.eval_async.
ListContains_eval(self, entry, output, expected) ==
    IF entry = "eval_async"
    THEN ListContains_run_eval_async(self, output, expected)
    ELSE ListContains_run_eval_sync(self, output, expected)

-----------------------------------------------------------------------------
(* json.dumps and json.loads *)

\* The characters of the model in code-point order.
Chars ==
    <<" ", "\"", "'", ",", "-", "0", "1", "2", "3", "4", "5", "6", "7", "8", "9",
      ":", "N", "[", "\\", "]", "a", "b", "e", "l", "n", "o", "q", "u", "{", "}">>

Ord(c) == CHOOSE i \in 1..Len(Chars) : Chars[i] = c

\* a < b as Python compares strings.
RECURSIVE StrLt(_, _)
StrLt(a, b) ==
    IF b = <<>> THEN FALSE
    ELSE IF a = <<>> THEN TRUE
    ELSE IF a[1] # b[1] THEN Ord(a[1]) < Ord(b[1])
    ELSE StrLt(Tail(a), Tail(b))

\* The entries of a dict ordered by key, as sort_keys=True writes them.
RECURSIVE SortedEntries(_)
SortedEntries(entries) ==
    IF entries = <<>> THEN <<>>
    ELSE LET least == CHOOSE i \in 1..Len(entries) :
                          \A j \in 1..Len(entries) :
                              j # i => StrLt(entries[i].k, entries[j].k)
         IN  <<entries[least]>> \o
             SortedEntries([j \in 1..(Len(entries) - 1) |->
                               IF j < least THEN entries[j] ELSE entries[j + 1]])

\* A str between double quotes, with quotes and backslashes escaped.
RECURSIVE JsonEscape(_)
JsonEscape(chars) ==
    IF chars = <<>> THEN <<>>
    ELSE (IF chars[1] \in {"\"", "\\"} THEN <<"\\", chars[1]>> ELSE <<chars[1]>>)
         \o JsonEscape(Tail(chars))

JsonString(chars) == <<"\"">> \o JsonEscape(chars) \o <<"\"">>

\* json.dumps(v, separators=(item_separator, key_separator), sort_keys=...).
RECURSIVE json_dumps(_, _, _, _)
RECURSIVE JsonItems(_, _, _, _)
RECURSIVE JsonEntries(_, _, _, _)
json_dumps(v, item_separator, key_separator, sort_keys) ==
    CASE v.t = "none" -> <<"n", "u", "l", "l">>
      [] v.t = "num" -> IntChars(v.n)
      [] v.t = "str" -> JsonString(v.s)
      [] v.t = "list" ->
            <<"[">> \o JsonItems(v.l, item_separator, key_separator, sort_keys) \o <<"]">>
      [] v.t = "dict" ->
            <<"{">> \o JsonEntries(IF sort_keys THEN SortedEntries(v.d) ELSE v.d,
                                   item_separator, key_separator, sort_keys) \o <<"}">>
JsonItems(items, item_separator, key_separator, sort_keys) ==
    IF items = <<>> THEN <<>>
    ELSE json_dumps(items[1], item_separator, key_separator, sort_keys) \o
         (IF Len(items) = 1 THEN <<>>
          ELSE item_separator \o
               JsonItems(Tail(items), item_separator, key_separator, sort_keys))
JsonEntries(entries, item_separator, key_separator, sort_keys) ==
    IF entries = <<>> THEN <<>>
    ELSE JsonString(entries[1].k) \o key_separator \o
         json_dumps(entries[1].v, item_separator, key_separator, sort_keys) \o
         (IF Len(entries) = 1 THEN <<>>
          ELSE item_separator \o
               JsonEntries(Tail(entries), item_separator, key_separator, sort_keys))

\* json.dumps(v) with the default separators.
JsonDefault(v) == json_dumps(v, <<",", " ">>, <<":", " ">>, FALSE)
\* A canonical form written with the default separators and key order.
JsonCompact_mutDefault(v) == json_dumps(v, <<",", " ">>, <<":", " ">>, FALSE)

\* json.dumps(v, separators=(",", ":"), sort_keys=True).
JsonCompact(v) == json_dumps(v, <<",">>, <<":">>, TRUE)

\* The JSON documents of the model: leaves, lists of at most MaxJsonLen
\* leaves, dicts of leaves over the keys a and b, and a few nested ones.
JsonLeaves ==
    {PyNone, PyNum(1), PyNum(2), PyStr(<<"a">>), PyStr(<<"[", "1", "]">>)}
JsonLists == {PyList(l) : l \in SeqsUpTo(JsonLeaves, MaxJsonLen)}
JsonDicts ==
    {PyDict(<<>>)} \cup
    {PyDict(<<[k |-> k, v |-> v]>>) : k \in {<<"a">>, <<"b">>}, v \in JsonLeaves} \cup
    {PyDict(<<[k |-> <<"a">>, v |-> v], [k |-> <<"b">>, v |-> w]>>) :
        v \in JsonLeaves, w \in JsonLeaves}
JsonNested ==
    {PyList(<<PyList(<<PyNum(1)>>)>>),
     PyList(<<PyDict(<<[k |-> <<"a">>, v |-> PyNum(1)]>>)>>),
     PyDict(<<[k |-> <<"a">>, v |-> PyList(<<PyNum(1), PyNum(2)>>)]>>),
     PyDict(<<[k |-> <<"a">>, v |-> PyDict(<<[k |-> <<"a">>, v |-> PyNum(1)]>>)]>>),
     PyDict(<<[k |-> <<"a">>, v |-> PyDict(<<[k |-> <<"a">>, v |-> PyStr(<<"a">>)]>>)]>>),
     PyDict(<<[k |-> <<"b">>, v |-> PyNum(1)], [k |-> <<"a">>, v |-> PyNum(2)]>>)}
JsonValues == JsonLeaves \cup JsonLists \cup JsonDicts \cup JsonNested

\* More documents, for comparing a document with itself: zero, a negative
\* number and the empty str among the leaves.
JsonMoreLeaves == JsonLeaves \cup {PyNum(0), PyNum(-1), PyStr(<<>>)}
JsonMoreValues ==
    JsonMoreLeaves \cup JsonNested \cup
    {PyList(l) : l \in SeqsUpTo(JsonMoreLeaves, MaxJsonLen)} \cup
    {PyDict(<<[k |-> <<"a">>, v |-> v]>>) : v \in JsonMoreLeaves} \cup
    {PyDict(<<[k |-> <<"a">>, v |-> v], [k |-> <<"b">>, v |-> w]>>) :
        v \in JsonMoreLeaves, w \in JsonMoreLeaves}

\* json.loads on the texts json.dumps writes for the documents of the model,
\* with either pair of separators; any other text is a JSONDecodeError.
JsonTexts ==
    {[text |-> JsonDefault(v), value |-> v] : v \in JsonValues} \cup
    {[text |-> json_dumps(v, <<",">>, <<":">>, FALSE), value |-> v] : v \in JsonValues}

JsonParsed(hits) ==
    IF hits = {} THEN [ok |-> FALSE, value |-> PyNone]
    ELSE [ok |-> TRUE, value |-> (CHOOSE e \in hits : TRUE).value]

json_loads(chars) == JsonParsed({e \in JsonTexts : e.text = chars})

-----------------------------------------------------------------------------
(* value.py: normalize_value *)

needs_json(value) == value.t \in {"dict", "list"}

\* [raised, s]: the normalized string, or the TypeError json.loads raises
\* for a value that is not a str.
normalize_value(value, maybe_object) ==
    IF needs_json(value) THEN [raised |-> FALSE, s |-> JsonDefault(value)]
    ELSE IF maybe_object /\ value.t # "str" THEN [raised |-> TRUE, s |-> <<>>]
    ELSE IF maybe_object /\ json_loads(value.s).ok
    THEN [raised |-> FALSE, s |-> JsonDefault(json_loads(value.s).value)]
    ELSE [raised |-> FALSE, s |-> Str(value)]

-----------------------------------------------------------------------------
(* value.py: ExactMatch *)

\* score = 1 if output == expected else 0, unless a normalization raised.
ExactMatchScore(output, expected) ==
    IF output.raised \/ expected.raised THEN Raise("TypeError")
    ELSE Score("ExactMatch", IF output.s = expected.s THEN One ELSE Zero, <<>>)

ExactMatch_run_eval_sync(output, expected) ==
    ExactMatchScore(
        normalize_value(output, needs_json(output) \/ needs_json(expected)),
        normalize_value(expected, needs_json(output) \/ needs_json(expected)))

\* Scorer._run_eval_async: by default the sync version.
ExactMatch_run_eval_async(output, expected) ==
    ExactMatch_run_eval_sync(output, expected)

ExactMatch_eval(entry, output, expected) ==
    IF entry = "eval_async"
    THEN ExactMatch_run_eval_async(output, expected)
    ELSE ExactMatch_run_eval_sync(output, expected)

-----------------------------------------------------------------------------
(* string.py: EmbeddingSimilarity *)

\* sum(a * b for a, b in zip(list1, list2)), over the first n positions.
RECURSIVE DotUpto(_, _, _)
DotUpto(list1, list2, n) ==
    IF n = 0 THEN 0 ELSE DotUpto(list1, list2, n - 1) + list1[n] * list2[n]

Dot(list1, list2) == DotUpto(list1, list2, Min2(Len(list1), Len(list2)))

\* x ** 0.5 on floats.  The root of a square is exact.  Any other root is
\* rounded to a number next to it, which the model places on a grid of
\* 1/RootGrid: above the root where the double is above it (2, 5 and 10),
\* below it otherwise (3, 13).
IsSquare(x) == \E r \in 0..x : r * r = x
FloorRoot(x) ==
    CHOOSE k \in 0..(x * RootGrid) :
        k * k <= x * RootGrid * RootGrid /\ (k + 1) * (k + 1) > x * RootGrid * RootGrid
RoundsUp == {2, 5, 10}

Sqrt(x) ==
    IF IsSquare(x) THEN RInt(CHOOSE r \in 0..x : r * r = x)
    ELSE IF x \in RoundsUp THEN Rat(FloorRoot(x) + 1, RootGrid)
    ELSE Rat(FloorRoot(x), RootGrid)

Magnitudes(list1, list2) == RMul(Sqrt(Dot(list1, list1)), Sqrt(Dot(list2, list2)))

\* A similarity without the cap at 1.
cosine_similarity_mutNoCap(list1, list2) ==
    IF Magnitudes(list1, list2) = Zero THEN Zero
    ELSE RDiv(RInt(Dot(list1, list2)), Magnitudes(list1, list2))

cosine_similarity(list1, list2) ==
    IF Magnitudes(list1, list2) = Zero THEN Zero
    ELSE RMin(RDiv(RInt(Dot(list1, list2)), Magnitudes(list1, list2)), One)

scale_score(score, expected_min) ==
    RMax(RDiv(RSub(score, expected_min), RSub(One, expected_min)), Zero)

\* The entry of the class-level cache under a key, if any.
Cached(cache, key) == {e \in cache : e.key = key}
CacheSet(cache, key, embedding) ==
    {e \in cache : e.key # key} \cup {[key |-> key, embedding |-> embedding]}

\* _embed and _a_embed: [embedding, requests, cache] after embedding `value`,
\* where `response` is what the provider answers if it is asked.
EmbedKeyed(self, cache, key, response) ==
    IF Cached(cache, key) # {}
    THEN [embedding |-> (CHOOSE e \in Cached(cache, key) : TRUE).embedding,
          requests |-> <<>>, cache |-> cache]
    ELSE [embedding |-> response,
          requests |-> <<[input |-> self.prefix \o key, model |-> self.model,
                          embedding |-> response]>>,
          cache |-> CacheSet(cache, key, response)]

embed(self, cache, value, response) ==
    EmbedKeyed(self, cache, normalize_value(value, FALSE).s, response)

\* The Score built from the two embeddings.
EmbeddingScore(self, output_result, expected_result) ==
    IF self.expected_min = One THEN Raise("ZeroDivisionError")
    ELSE Score("EmbeddingSimilarity",
               scale_score(cosine_similarity(output_result, expected_result),
                           self.expected_min),
               <<>>)

EmbeddedBoth(self, first, second) ==
    [result |-> EmbeddingScore(self, first.embedding, second.embedding),
     requests |-> first.requests \o second.requests,
     embedded |-> <<first.embedding, second.embedding>>,
     cache |-> second.cache]

EmbedExpected(self, expected, first, response) ==
    EmbeddedBoth(self, first, embed(self, first.cache, expected, response))

\* The outcomes [result, requests, cache] of one evaluation: the output is
\* embedded, then the expected value; Vectors are the provider's answers.
EmbeddingSimilarity_run_eval_sync(self, cache, output, expected, Vectors) ==
    IF IsNone(expected)
    THEN {[result |-> Raise("ValueError"), requests |-> <<>>, embedded |-> <<>>,
           cache |-> cache]}
    ELSE {EmbedExpected(self, expected, embed(self, cache, output, ro), re) :
            ro \in Vectors, re \in Vectors}

\* A check of `expected` that comes after the embeddings were fetched.
EmbeddingSimilarity_run_eval_async_mutLate(self, cache, output, expected, Vectors) ==
    {[result |-> IF IsNone(expected) THEN Raise("ValueError") ELSE o.result,
      requests |-> o.requests, embedded |-> o.embedded, cache |-> o.cache] :
        o \in {EmbedExpected(self, expected, embed(self, cache, output, ro), re) :
                 ro \in Vectors, re \in Vectors}}

\* The coroutines of the two embeddings are awaited one after the other.
EmbeddingSimilarity_run_eval_async(self, cache, output, expected, Vectors) ==
    IF IsNone(expected)
    THEN {[result |-> Raise("ValueError"), requests |-> <<>>, embedded |-> <<>>,
           cache |-> cache]}
    ELSE {EmbedExpected(self, expected, embed(self, cache, output, ro), re) :
            ro \in Vectors, re \in Vectors}

EmbeddingSimilarity_eval(self, entry, cache, output, expected, Vectors) ==
    IF entry = "eval_async"
    THEN EmbeddingSimilarity_run_eval_async(self, cache, output, expected, Vectors)
    ELSE EmbeddingSimilarity_run_eval_sync(self, cache, output, expected, Vectors)

-----------------------------------------------------------------------------
(* json.py: JSONDiff *)

\* Scorer.eval of a sub-scorer handed to JSONDiff.
Scorer_eval(scorer, output, expected) ==
    IF scorer.cls = "NumericDiff" THEN NumericDiff_run_eval_sync(output, expected)
    ELSE Pairwise_run_eval_sync(scorer, output, expected)

\* ValidJSON.valid_json without a schema: 1 for a dict or a list, or for a
\* str that parses to one.
valid_json(output) ==
    IF output.t = "str"
    THEN (IF json_loads(output.s).ok /\ needs_json(json_loads(output.s).value)
          THEN 1 ELSE 0)
    ELSE IF needs_json(output) THEN 1 ELSE 0

\* What json_diff compares: a str that holds a JSON dict or list is parsed,
\* unless preserve_strings is set.
Parsed(self, o) ==
    IF ~self.preserve_strings /\ o.t = "str" /\ valid_json(o) = 1
    THEN json_loads(o.s).value
    ELSE o

\* What json_diff hands back: a number, None (NoScore), or a raised error.
Diffed(score) == [raised |-> FALSE, score |-> score, exc |-> ""]
DiffRaised(exc) == [raised |-> TRUE, score |-> NoScore, exc |-> exc]
ScoreOf(outcome) ==
    IF outcome.kind = "Raise" THEN DiffRaised(outcome.exc) ELSE Diffed(outcome.score)

HasKey(d, k) == \E i \in 1..Len(d) : d[i].k = k
\* d.get(k)
DictGet(d, k) == IF HasKey(d, k) THEN d[CHOOSE i \in 1..Len(d) : d[i].k = k].v ELSE PyNone

\* set(o1.keys()).union(set(o2.keys())), in one order of iteration.
AllKeys(d1, d2) ==
    [i \in 1..Len(d1) |-> d1[i].k] \o
    SelectSeq([i \in 1..Len(d2) |-> d2[i].k], LAMBDA k : ~HasKey(d1, k))

AnyRaised(children) == \E i \in 1..Len(children) : children[i].raised
FirstRaised(children) ==
    children[CHOOSE i \in 1..Len(children) :
                /\ children[i].raised
                /\ \A j \in 1..(i - 1) : ~children[j].raised]

\* [s for s in base_scores if s is not None]
NonNull(children) ==
    LET kept == SelectSeq(children, LAMBDA c : c.score # NoScore)
    IN  [i \in 1..Len(kept) |-> kept[i].score]

\* A mean that counts the null children in its denominator.
DictScore_mutCountNull(children) ==
    IF AnyRaised(children) THEN FirstRaised(children)
    ELSE Diffed(RDiv(RSum(NonNull(children)), RInt(Len(children))))

\* sum(base_scores) / len(base_scores)
DictScore(children) ==
    IF AnyRaised(children) THEN FirstRaised(children)
    ELSE IF Len(NonNull(children)) = 0 THEN DiffRaised("ZeroDivisionError")
    ELSE Diffed(RDiv(RSum(NonNull(children)), RInt(Len(NonNull(children)))))

\* The mean of the non-null children, as for two dicts.
ListScore_mutMean(children, len1, len2) == DictScore(children)

\* sum(base_scores) / max(len(o1), len(o2))
ListScore(children, len1, len2) ==
    IF AnyRaised(children) THEN FirstRaised(children)
    ELSE Diffed(RDiv(RSum(NonNull(children)), RInt(Max2(len1, len2))))

RECURSIVE json_diff(_, _, _)
RECURSIVE DiffParsed(_, _, _)
RECURSIVE DiffKeys(_, _, _, _)
RECURSIVE DiffZip(_, _, _, _)
json_diff(self, o1, o2) == DiffParsed(self, Parsed(self, o1), Parsed(self, o2))

\* [self.json_diff(o1.get(k), o2.get(k)) for k in all_keys]
DiffKeys(self, d1, d2, keys) ==
    IF keys = <<>> THEN <<>>
    ELSE <<json_diff(self, DictGet(d1, keys[1]), DictGet(d2, keys[1]))>> \o
         DiffKeys(self, d1, d2, Tail(keys))

\* [self.json_diff(e1, e2) for (e1, e2) in zip(o1, o2)]
DiffZip(self, l1, l2, i) ==
    IF i > Len(l1) \/ i > Len(l2) THEN <<>>
    ELSE <<json_diff(self, l1[i], l2[i])>> \o DiffZip(self, l1, l2, i + 1)

DiffParsed(self, o1, o2) ==
    CASE o1.t = "dict" /\ o2.t = "dict" ->
            IF Len(o1.d) = 0 /\ Len(o2.d) = 0 THEN Diffed(One)
            ELSE DictScore(DiffKeys(self, o1.d, o2.d, AllKeys(o1.d, o2.d)))
      [] o1.t = "list" /\ o2.t = "list" ->
            IF Len(o1.l) = 0 /\ Len(o2.l) = 0 THEN Diffed(One)
            ELSE ListScore(DiffZip(self, o1.l, o2.l, 1), Len(o1.l), Len(o2.l))
      [] o1.t = "str" /\ o2.t = "str" ->
            ScoreOf(Scorer_eval(self.string_scorer, o1, o2))
      [] o1.t = "num" /\ o2.t = "num" ->
            ScoreOf(Scorer_eval(self.number_scorer, o1, o2))
      [] o1.t = "none" /\ o2.t = "none" -> Diffed(One)
      [] o1.t # o2.t /\ (o1.t = "none" \/ o2.t = "none") -> Diffed(Zero)
      [] OTHER ->
            ScoreOf(Scorer_eval(self.string_scorer,
                                PyStr(JsonCompact(o1)), PyStr(JsonCompact(o2))))

JSONDiff_Score(diffed) ==
    IF diffed.raised THEN Raise(diffed.exc) ELSE Score("JSONDiff", diffed.score, <<>>)

JSONDiff_run_eval_sync(self, output, expected) ==
    JSONDiff_Score(json_diff(self, output, expected))

\* Scorer._run_eval_async: by default the sync version.
JSONDiff_run_eval_async(self, output, expected) ==
    JSONDiff_run_eval_sync(self, output, expected)

JSONDiff_eval(self, entry, output, expected) ==
    IF entry = "eval_async"
    THEN JSONDiff_run_eval_async(self, output, expected)
    ELSE JSONDiff_run_eval_sync(self, output, expected)

-----------------------------------------------------------------------------
(* The inputs *)

ItemStrings == {<<"a">>, <<"b">>, <<"a", "b">>}
Items == {PyStr(s) : s \in ItemStrings}
Lists == {PyList(l) : l \in SeqsUpTo(Items, MaxLen)}

PairwiseScorers ==
    {DefaultPairwise} \cup
    {[cls |-> "UserScorer", fault |-> f, at |-> x] : f \in {"raise", "null"}, x \in Items}

\* Pairwise scorers whose score leaves [0, 1] whenever one item is involved.
UncheckedScorers ==
    {[cls |-> "UserScorer", fault |-> f, at |-> x] : f \in {"above", "below"}, x \in Items}

Entries == {"eval", "eval_async"}

Numbers == {PyNum(k) : k \in {-1, 0, 1, 2}}
\* The embeddings a provider answers with.
Vectors == {<<0, 0>>, <<3, 4>>, <<4, 3>>, <<-3, -4>>, <<1, 1>>, <<2, 3>>}
EmbeddingSimilarities ==
    [prefix : {<<>>, <<"q">>},
     model : {"text-embedding-ada-002", "text-embedding-3-small"},
     expected_min : {Rat(7, 10), Zero, RInt(-1)}]

ScoreArgs ==
    {Rat(k, ScoreGrid) : k \in (-ScoreGrid)..(2 * ScoreGrid)} \cup {NoScore}
ScorerNames == {"Levenshtein", "NumericDiff", "ListContains", "JSONDiff"}

NoCtor == [name |-> "", score |-> NoScore]
NoListContains == [pairwise_scorer |-> DefaultPairwise, allow_extra_entities |-> FALSE]
NumericDiffScorer == [cls |-> "NumericDiff", fault |-> "none", at |-> PyNone]
NoJSONDiff == [string_scorer |-> DefaultPairwise, number_scorer |-> NumericDiffScorer,
               preserve_strings |-> FALSE]
\* EmbeddingSimilarity(): no prefix, the default model, expected_min=0.7.
NoEmbeddingSimilarity ==
    [prefix |-> <<>>, model |-> "text-embedding-ada-002", expected_min |-> Rat(7, 10)]
NoCall == [scorer |-> "", entry |-> "", output |-> PyNone, expected |-> PyNone]

-----------------------------------------------------------------------------
(* llm.py: OpenAILLMClassifier, processing the provider's response *)

Whitespace == {" ", "\n", "\t"}

RECURSIVE LStrip(_)
LStrip(chars) ==
    IF Len(chars) > 0 /\ Head(chars) \in Whitespace THEN LStrip(Tail(chars)) ELSE chars

RECURSIVE RStrip(_)
RStrip(chars) ==
    IF Len(chars) > 0 /\ chars[Len(chars)] \in Whitespace
    THEN RStrip(SubSeq(chars, 1, Len(chars) - 1))
    ELSE chars

\* str.strip()
Strip(chars) == RStrip(LStrip(chars))

KeyChoice == <<"c", "h", "o", "i", "c", "e">>

\* The labels a tool call may carry.
Labels == {<<"Y">>, <<" ", "Y", "\n">>, <<"N">>, <<"N", " ">>, <<"Z">>, <<>>}

\* The objects a tool call's arguments may encode: a choice, a choice that
\* is not a string, no choice, and a value that is not an object.
ToolArguments ==
    {PyDict(<<[k |-> KeyChoice, v |-> PyStr(label)]>>) : label \in Labels} \cup
    {PyDict(<<[k |-> KeyChoice, v |-> PyNum(1)]>>), PyDict(<<>>), PyList(<<>>)}

\* The arguments texts the provider may send: the JSON of each object, and
\* a text that is not JSON.
ArgumentTexts ==
    {[ok |-> TRUE, text |-> JsonDefault(v), value |-> v] : v \in ToolArguments} \cup
    {[ok |-> FALSE, text |-> <<"{">>, value |-> PyNone]}

\* json.loads(tool_call["function"]["arguments"])
loads_arguments(chars) ==
    JsonParsed({e \in ArgumentTexts : e.ok /\ e.text = chars})

HasChoice(choice_scores, choice) ==
    \E i \in 1..Len(choice_scores) : choice_scores[i].k = choice

\* self.choice_scores[choice]
ChoiceScore(choice_scores, choice) ==
    choice_scores[CHOOSE i \in 1..Len(choice_scores) : choice_scores[i].k = choice].v

\* A lookup that falls back to a null score for an unknown label.
Classified_mutFallback(self, choice) ==
    IF ~HasChoice(self.choice_scores, choice)
    THEN Score(self.name, NoScore, choice)
    ELSE Score(self.name, ChoiceScore(self.choice_scores, choice), choice)

\* score = self.choice_scores[metadata["choice"]]; return Score(...)
Classified(self, choice) ==
    IF ~HasChoice(self.choice_scores, choice)
    THEN Raise("KeyError")
    ELSE Score(self.name, ChoiceScore(self.choice_scores, choice), choice)

\* args = json.loads(...); metadata["choice"] = args["choice"].strip()
ProcessArguments(self, parsed) ==
    IF ~parsed.ok THEN Raise("JSONDecodeError")
    ELSE IF parsed.value.t # "dict" THEN Raise("TypeError")
    ELSE IF ~HasKey(parsed.value.d, KeyChoice) THEN Raise("KeyError")
    ELSE IF DictGet(parsed.value.d, KeyChoice).t # "str" THEN Raise("AttributeError")
    ELSE Classified(self, Strip(DictGet(parsed.value.d, KeyChoice).s))

\* OpenAILLMClassifier._process_response(resp), resp being a message
process_response(self, message) ==
    IF ~message.has_tool_calls THEN Raise("ValueError")
    ELSE IF Len(message.tool_calls) = 0 THEN Raise("IndexError")
    ELSE IF message.tool_calls[1].name # "select_choice" THEN Raise("ValueError")
    ELSE ProcessArguments(self, loads_arguments(message.tool_calls[1].arguments))

\* OpenAILLMClassifier._postprocess_response(resp)
postprocess_response(self, resp) ==
    IF Len(resp.choices) > 0
    THEN process_response(self, resp.choices[1])
    ELSE Raise("ValueError")

\* _run_eval_sync: _postprocess_response(run_cached_request(...))
LLMClassifier_run_eval_sync(self, resp) == postprocess_response(self, resp)

\* _run_eval_async: _postprocess_response(await arun_cached_request(...))
LLMClassifier_run_eval_async(self, resp) == postprocess_response(self, resp)

LLMClassifier_eval(self, entry, resp) ==
    IF entry = "eval_async"
    THEN LLMClassifier_run_eval_async(self, resp)
    ELSE LLMClassifier_run_eval_sync(self, resp)

NoLLMClassifier == [name |-> "", choice_scores |-> <<>>]

-----------------------------------------------------------------------------
(* ragas.py: Faithfulness *)

\* check_required(name, **kwargs): TRUE when it raises ValueError.
check_required(values) == \E i \in 1..Len(values) : IsNone(values[i])

\* sum([s["verdict"] for s in faithfulness])
RECURSIVE VerdictSum(_)
VerdictSum(faithfulness) ==
    IF faithfulness = <<>> THEN 0
    ELSE Head(faithfulness) + VerdictSum(Tail(faithfulness))

\* The two requests and the Score built from the provider's answers; an
\* empty verdict list divides by zero.
FaithfulnessScored(expected, input, context, answers) ==
    [result |->
        IF Len(answers.faithfulness) = 0
        THEN Raise("ZeroDivisionError")
        ELSE Score("Faithfulness",
                   Rat(VerdictSum(answers.faithfulness), Len(answers.faithfulness)),
                   <<answers.statements, answers.faithfulness>>),
     requests |->
        <<[fn |-> "extract_statements", question |-> input, answer |-> expected,
           statements |-> <<>>],
          [fn |-> "extract_faithfulness", question |-> context, answer |-> PyNone,
           statements |-> answers.statements]>>]

FaithfulnessRejected == [result |-> Raise("ValueError"), requests |-> <<>>]

\* Faithfulness._run_eval_async: requires input, output and context.
Faithfulness_run_eval_async(output, expected, input, context, answers) ==
    IF check_required(<<input, output, context>>)
    THEN FaithfulnessRejected
    ELSE FaithfulnessScored(expected, input, context, answers)

\* Faithfulness._run_eval_sync: requires input and context.
Faithfulness_run_eval_sync(output, expected, input, context, answers) ==
    IF check_required(<<input, context>>)
    THEN FaithfulnessRejected
    ELSE FaithfulnessScored(expected, input, context, answers)

Faithfulness_eval(entry, output, expected, input, context, answers) ==
    IF entry = "eval_async"
    THEN Faithfulness_run_eval_async(output, expected, input, context, answers)
    ELSE Faithfulness_run_eval_sync(output, expected, input, context, answers)

\* No provider answers are scripted.
NoProvider == [statements |-> <<>>, faithfulness |-> <<>>]

-----------------------------------------------------------------------------
(* ragas.py: ContextRelevancy *)

\* "\n".join(context) for a list of strings
RECURSIVE JoinLines(_)
JoinLines(items) ==
    IF Len(items) = 0 THEN <<>>
    ELSE IF Len(items) = 1 THEN items[1].s
    ELSE items[1].s \o <<"\n">> \o JoinLines(Tail(items))

\* "".join([s["sentence"] for s in sentences["sentences"]])
RECURSIVE JoinSentences(_)
JoinSentences(sentences) ==
    IF sentences = <<>> THEN <<>>
    ELSE Head(sentences) \o JoinSentences(Tail(sentences))

\* ContextRelevancy._postprocess(context, response): the length of the
\* extracted sentences over the length of the context, handed to Score.
ContextRelevancy_postprocess(context, sentences) ==
    IF Len(context) = 0 THEN Raise("ZeroDivisionError")
    ELSE Score("ContextRelevancy",
               Rat(Len(JoinSentences(sentences)), Len(context)),
               sentences)

\* _run_eval_sync / _run_eval_async: the same steps on both paths.
ContextRelevancy_run_eval_sync(input, context, sentences) ==
    IF check_required(<<input, context>>) THEN Raise("ValueError")
    ELSE ContextRelevancy_postprocess(
             IF context.t = "list" THEN JoinLines(context.l) ELSE context.s,
             sentences)

ContextRelevancy_run_eval_async(input, context, sentences) ==
    IF check_required(<<input, context>>) THEN Raise("ValueError")
    ELSE ContextRelevancy_postprocess(
             IF context.t = "list" THEN JoinLines(context.l) ELSE context.s,
             sentences)

ContextRelevancy_eval(entry, input, context, sentences) ==
    IF entry = "eval_async"
    THEN ContextRelevancy_run_eval_async(input, context, sentences)
    ELSE ContextRelevancy_run_eval_sync(input, context, sentences)

-----------------------------------------------------------------------------
(* partial.py: ScorerWithPartial.partial *)

\* A **kwargs dict over the keys expected, input, context: the keys it holds
\* and their values (None under a key it does not hold).
Kwargs(keys, expected, input, context) ==
    [keys |-> keys,
     expected |-> IF "expected" \in keys THEN expected ELSE PyNone,
     input |-> IF "input" \in keys THEN input ELSE PyNone,
     context |-> IF "context" \in keys THEN context ELSE PyNone]

\* kwargs["expected"] = expected
SetExpected(kwargs, expected) ==
    [kwargs EXCEPT !.keys = @ \cup {"expected"}, !.expected = expected]

\* A merge in which the bound arguments win over the call's.
MergeKwargs_mutBoundWins(partial_kwargs, kwargs) ==
    Kwargs(partial_kwargs.keys \cup kwargs.keys,
           IF "expected" \in partial_kwargs.keys THEN partial_kwargs.expected ELSE kwargs.expected,
           IF "input" \in partial_kwargs.keys THEN partial_kwargs.input ELSE kwargs.input,
           IF "context" \in partial_kwargs.keys THEN partial_kwargs.context ELSE kwargs.context)

\* {**partial_kwargs, **kwargs}
MergeKwargs(partial_kwargs, kwargs) ==
    Kwargs(partial_kwargs.keys \cup kwargs.keys,
           IF "expected" \in kwargs.keys THEN kwargs.expected ELSE partial_kwargs.expected,
           IF "input" \in kwargs.keys THEN kwargs.input ELSE partial_kwargs.input,
           IF "context" \in kwargs.keys THEN kwargs.context ELSE partial_kwargs.context)

\* cls._run_eval_sync(output, **merged): each parameter takes the keyword
\* of its name, or its default None.
Partial_run_eval_sync(cls, output, merged, sentences) ==
    IF cls = "Levenshtein"
    THEN Levenshtein_run_eval_sync(output, merged.expected)
    ELSE ContextRelevancy_run_eval_sync(merged.input, merged.context, sentences)

\* cls._run_eval_async(output, **merged)
Partial_run_eval_async(cls, output, merged, sentences) ==
    IF cls = "Levenshtein"
    THEN Levenshtein_run_eval_async(output, merged.expected)
    ELSE ContextRelevancy_run_eval_async(merged.input, merged.context, sentences)

\* PartialScorer.eval(output, expected=None, **kwargs)
PartialScorer_eval(cls, partial_kwargs, output, expected, kwargs, sentences) ==
    Partial_run_eval_sync(
        cls, output,
        MergeKwargs(partial_kwargs,
                    IF ~IsNone(expected) THEN SetExpected(kwargs, expected) ELSE kwargs),
        sentences)

\* PartialScorer.eval_async(output, expected=None, **kwargs)
PartialScorer_eval_async(cls, partial_kwargs, output, expected, kwargs, sentences) ==
    Partial_run_eval_async(
        cls, output,
        MergeKwargs(partial_kwargs,
                    IF ~IsNone(expected) THEN SetExpected(kwargs, expected) ELSE kwargs),
        sentences)

-----------------------------------------------------------------------------
(* ragas.py: ContextRecall *)

\* ContextRecall._postprocess: the share of the statements attributed to the
\* context; an empty statement list divides by zero.
ContextRecall_postprocess(statements) ==
    IF Len(statements) = 0
    THEN Raise("ZeroDivisionError")
    ELSE Score("ContextRecall", Rat(VerdictSum(statements), Len(statements)),
               statements)

\* The request made and the Score built from the provider's answer.
ContextRecallScored(expected, input, context, answers) ==
    [result |-> ContextRecall_postprocess(answers.attributed),
     requests |-> <<[fn |-> "extract_context_recall", question |-> input,
                     answer |-> expected, context |-> context]>>]

ContextRecall_run_eval_sync(output, expected, input, context, answers) ==
    IF check_required(<<input, expected, context>>)
    THEN [result |-> Raise("ValueError"), requests |-> <<>>]
    ELSE ContextRecallScored(expected, input, context, answers)

ContextRecall_run_eval_async(output, expected, input, context, answers) ==
    IF check_required(<<input, expected, context>>)
    THEN [result |-> Raise("ValueError"), requests |-> <<>>]
    ELSE ContextRecallScored(expected, input, context, answers)

ContextRecall_eval(entry, output, expected, input, context, answers) ==
    IF entry = "eval_async"
    THEN ContextRecall_run_eval_async(output, expected, input, context, answers)
    ELSE ContextRecall_run_eval_sync(output, expected, input, context, answers)

-----------------------------------------------------------------------------
(* ragas.py: AnswerCorrectness *)

\* AnswerCorrectness(): factuality_weight=0.75, answer_similarity_weight=0.25.
DefaultWeights ==
    [factuality_weight |-> Rat(3, 4), answer_similarity_weight |-> Rat(1, 4)]

\* tp + 0.5 * (fp + fn), doubled.
F1Denominator(factuality) ==
    2 * Len(factuality.TP) + Len(factuality.FP) + Len(factuality.FN)

\* compute_f1_score: tp / (tp + 0.5 * (fp + fn)), where the division is defined.
compute_f1_score(factuality) ==
    Rat(2 * Len(factuality.TP), F1Denominator(factuality))

\* The weighted mean of the two scores, over the sum of the weights.
Weighted(self, factuality_score, similarity_score) ==
    RDiv(RAdd(RMul(self.factuality_weight, factuality_score),
              RMul(self.answer_similarity_weight, similarity_score)),
         RAdd(self.factuality_weight, self.answer_similarity_weight))

\* AnswerCorrectness._postprocess; similarity is None (NoScore) or the score
\* of the answer similarity.
AnswerCorrectness_postprocess(self, factuality, similarity) ==
    IF F1Denominator(factuality) = 0
    THEN Raise("ZeroDivisionError")
    ELSE Score("AnswerCorrectness",
               Weighted(self, compute_f1_score(factuality),
                        IF similarity = NoScore THEN Zero ELSE similarity),
               <<factuality, compute_f1_score(factuality), similarity>>)

\* _run_answer_similarity_sync / _async: None when the weight is 0.
run_answer_similarity(self, answers) ==
    IF self.answer_similarity_weight = Zero THEN NoScore ELSE answers.similarity

AnswerCorrectnessScored(self, output, expected, input, answers) ==
    [result |-> AnswerCorrectness_postprocess(self, answers.factuality,
                                              run_answer_similarity(self, answers)),
     requests |-> <<[fn |-> "extract_correctness", question |-> input,
                     answer |-> output, ground_truth |-> expected]>>]

AnswerCorrectness_run_eval_sync(self, output, expected, input, answers) ==
    IF check_required(<<input, expected, output>>)
    THEN [result |-> Raise("ValueError"), requests |-> <<>>]
    ELSE AnswerCorrectnessScored(self, output, expected, input, answers)

AnswerCorrectness_run_eval_async(self, output, expected, input, answers) ==
    IF check_required(<<input, expected, output>>)
    THEN [result |-> Raise("ValueError"), requests |-> <<>>]
    ELSE AnswerCorrectnessScored(self, output, expected, input, answers)

AnswerCorrectness_eval(self, entry, output, expected, input, answers) ==
    IF entry = "eval_async"
    THEN AnswerCorrectness_run_eval_async(self, output, expected, input, answers)
    ELSE AnswerCorrectness_run_eval_sync(self, output, expected, input, answers)

-----------------------------------------------------------------------------
(* string.py: _embed / _a_embed, one locked block at a time *)

\* value = normalize_value(value, maybe_object=False)
CacheKey(value) == normalize_value(value, FALSE).s

\* with self._CACHE_LOCK: if value in self._CACHE: return self._CACHE[value]
\* The task returns the entry, or goes on to ask the provider.
Lookup(task, cache) ==
    IF Cached(cache, CacheKey(task.value)) # {}
    THEN [task EXCEPT !.pc = "done",
                      !.result = (CHOOSE e \in Cached(cache, CacheKey(task.value)) :
                                     TRUE).embedding]
    ELSE [task EXCEPT !.pc = "request"]

\* result = run_cached_request(...) / await arun_cached_request(...)
Requested(task, response) == [task EXCEPT !.pc = "store", !.result = response]

\* with self._CACHE_LOCK: self._CACHE[value] = result
Store(task, cache) == CacheSet(cache, CacheKey(task.value), task.result)

-----------------------------------------------------------------------------
(* oai.py: the client and the default models set by init() *)

\* An Optional[str]: None, or the string s.
NoneModel == [isNone |-> TRUE, s |-> ""]
StrModel(s) == [isNone |-> FALSE, s |-> s]

\* Python truthiness of an Optional[str]: None and "" are false.
Truthy(m) == ~m.isNone /\ m.s # ""

\* The default_model argument of init(): None, a str, or a DefaultModelConfig
\* dict (total=False: each key may be absent).
DefaultModelNone ==
    [form |-> "None", s |-> "", keys |-> {},
     completion |-> NoneModel, embedding |-> NoneModel]
DefaultModelStr(s) ==
    [form |-> "str", s |-> s, keys |-> {},
     completion |-> NoneModel, embedding |-> NoneModel]
DefaultModelDict(keys, completion, embedding) ==
    [form |-> "dict", s |-> "", keys |-> keys,
     completion |-> IF "completion" \in keys THEN completion ELSE NoneModel,
     embedding |-> IF "embedding" \in keys THEN embedding ELSE NoneModel]

\* `elif default_model:` -- a dict is true when it has a key, a str when it
\* is not empty (a str never reaches the test), None is false.
DefaultModelTruthy(default_model) ==
    \/ default_model.form = "dict" /\ default_model.keys # {}
    \/ default_model.form = "str" /\ default_model.s # ""

\* The client argument of init(): None, an LLMClient, or an OpenAI module or
\* object that resolve_client wraps.
NoClient == [isNone |-> TRUE, cls |-> "", is_async |-> FALSE]
resolve_client(client, is_async) ==
    IF client.cls = "LLMClient"
    THEN client
    ELSE [isNone |-> FALSE, cls |-> "LLMClient", is_async |-> is_async]

\* The value init() leaves in _default_model_var.
init_default_model(default_model, previous) ==
    IF default_model.form = "str"
    THEN StrModel(default_model.s)
    ELSE IF DefaultModelTruthy(default_model)
         THEN IF "completion" \in default_model.keys
              THEN default_model.completion
              ELSE previous
         ELSE NoneModel

\* The value init() leaves in _default_embedding_model_var.
init_default_embedding_model(default_model, previous) ==
    IF default_model.form = "str"
    THEN NoneModel
    ELSE IF DefaultModelTruthy(default_model)
         THEN IF "embedding" \in default_model.keys
              THEN default_model.embedding
              ELSE previous
         ELSE NoneModel

get_default_model ==
    IF Truthy(default_model_var) THEN default_model_var.s ELSE "gpt-5-mini"

get_default_embedding_model ==
    IF Truthy(default_embedding_model_var)
    THEN default_embedding_model_var.s
    ELSE "text-embedding-ada-002"

\* The context variables before any init(): unset, so .get(None) is None.
NoDefaults ==
    /\ client_var = NoClient
    /\ default_model_var = NoneModel
    /\ default_embedding_model_var = NoneModel

-----------------------------------------------------------------------------
(* oai.py, claude.py: run_cached_request and arun_cached_request *)

\* `while retries < 100`
MaxRetries == 100

\* A duration in seconds, kept exact as 2^e2 * 3^e3 * 5^e5.
Factored(e2, e3, e5) == [e2 |-> e2, e3 |-> e3, e5 |-> e5]
FMul(a, b) == [e2 |-> a.e2 + b.e2, e3 |-> a.e3 + b.e3, e5 |-> a.e5 + b.e5]
FDiv(a, b) == [e2 |-> a.e2 - b.e2, e3 |-> a.e3 - b.e3, e5 |-> a.e5 - b.e5]

\* sleep_time = 0.1
SleepStart == Factored(-1, 0, -1)

\* A backoff that waits the same time before every retry.
Backoff_mutConstant(t) == t

\* sleep_time *= 1.5
Backoff(t) == FMul(t, Factored(-1, 1, 0))

\* The locals of the request loop before its first iteration.
NoRequest ==
    /\ retries = 0
    /\ sleep_time = SleepStart
    /\ slept = <<>>

\* What the caller gets when the function returns resp.
Response(resp) ==
    [kind |-> "Return", name |-> resp, score |-> NoScore, metadata |-> <<>>, exc |-> ""]

\* Leaving the loop without a response: oai.py raises RuntimeError; claude.py
\* returns a local that was never bound, which raises UnboundLocalError.
Exhausted(module) ==
    IF module = "oai" THEN Raise("RuntimeError") ELSE Raise("UnboundLocalError")

-----------------------------------------------------------------------------
(* Constructing a Score *)

InitScore ==
    /\ tasks = <<>>
    /\ ctor \in [name : ScorerNames, score : ScoreArgs]
    /\ listContains = NoListContains
    /\ jsonDiff = NoJSONDiff
    /\ embeddingSimilarity = NoEmbeddingSimilarity
    /\ CACHE = {}
    /\ requests = <<>>
    /\ embedded = <<>>
    /\ llmClassifier = NoLLMClassifier
    /\ NoRequest
    /\ NoDefaults
    /\ provider = NoProvider
    /\ call = [NoCall EXCEPT !.scorer = "Score"]
    /\ result = Pending
    /\ subcalls = <<>>
    /\ matched = <<>>

ScoreConstruct ==
    /\ call.scorer = "Score"
    /\ result = Pending
    /\ result' = Score(ctor.name, ctor.score, <<>>)
    /\ UNCHANGED <<tasks, provider, boundary, defaults, instances, CACHE, requests, embedded, call, subcalls, matched>>

NextScore == ScoreConstruct

SpecScore == InitScore /\ [][NextScore]_vars

-----------------------------------------------------------------------------
(* Evaluating ListContains *)

InitList ==
    /\ tasks = <<>>
    /\ ctor = NoCtor
    /\ listContains \in [pairwise_scorer : PairwiseScorers, allow_extra_entities : BOOLEAN]
    /\ jsonDiff = NoJSONDiff
    /\ embeddingSimilarity = NoEmbeddingSimilarity
    /\ CACHE = {}
    /\ requests = <<>>
    /\ embedded = <<>>
    /\ llmClassifier = NoLLMClassifier
    /\ NoRequest
    /\ NoDefaults
    /\ provider = NoProvider
    /\ call \in [scorer : {"ListContains"}, entry : Entries,
                 output : Lists, expected : Lists \cup {PyNone}]
    /\ result = Pending
    /\ subcalls = <<>>
    /\ matched = <<>>

ListContainsEval ==
    /\ call.scorer = "ListContains"
    /\ result = Pending
    /\ \E o \in ListContains_eval(listContains, call.entry, call.output, call.expected) :
          /\ result' = o.result
          /\ subcalls' = o.subcalls
          /\ matched' = o.matched
    /\ UNCHANGED <<tasks, provider, boundary, defaults, instances, CACHE, requests, embedded, call>>

NextList == ListContainsEval

SpecList == InitList /\ [][NextList]_vars

\* ListContains over a pairwise scorer whose scores leave [0, 1].
InitUnchecked ==
    /\ tasks = <<>>
    /\ ctor = NoCtor
    /\ listContains \in [pairwise_scorer : UncheckedScorers, allow_extra_entities : BOOLEAN]
    /\ jsonDiff = NoJSONDiff
    /\ embeddingSimilarity = NoEmbeddingSimilarity
    /\ CACHE = {}
    /\ requests = <<>>
    /\ embedded = <<>>
    /\ llmClassifier = NoLLMClassifier
    /\ NoRequest
    /\ NoDefaults
    /\ provider = NoProvider
    /\ call \in [scorer : {"ListContains"}, entry : Entries,
                 output : Lists, expected : Lists \cup {PyNone}]
    /\ result = Pending
    /\ subcalls = <<>>
    /\ matched = <<>>

SpecUnchecked == InitUnchecked /\ [][NextList]_vars

-----------------------------------------------------------------------------
(* Evaluating the scorers that require an expected value *)

InitExpected ==
    /\ tasks = <<>>
    /\ ctor = NoCtor
    /\ listContains = NoListContains
    /\ jsonDiff = NoJSONDiff
    /\ embeddingSimilarity \in EmbeddingSimilarities
    /\ CACHE = {}
    /\ requests = <<>>
    /\ embedded = <<>>
    /\ llmClassifier = NoLLMClassifier
    /\ NoRequest
    /\ NoDefaults
    /\ provider = NoProvider
    /\ call \in
          [scorer : {"Levenshtein"}, entry : Entries,
           output : Items \cup Numbers \cup {PyNone},
           expected : Items \cup Numbers \cup {PyNone}] \cup
          [scorer : {"NumericDiff"}, entry : Entries,
           output : Numbers, expected : Numbers \cup {PyNone}] \cup
          [scorer : {"EmbeddingSimilarity"}, entry : Entries,
           output : Items \cup {PyNone}, expected : Items \cup {PyNone}] \cup
          [scorer : {"ListContains"}, entry : Entries,
           output : Lists, expected : Lists \cup {PyNone}]
    /\ call.scorer # "EmbeddingSimilarity" => embeddingSimilarity = NoEmbeddingSimilarity
    /\ result = Pending
    /\ subcalls = <<>>
    /\ matched = <<>>

LevenshteinEval ==
    /\ call.scorer = "Levenshtein"
    /\ result = Pending
    /\ result' = Levenshtein_eval(call.entry, call.output, call.expected)
    /\ UNCHANGED <<tasks, provider, boundary, defaults, instances, CACHE, requests, embedded, call, subcalls, matched>>

NumericDiffEval ==
    /\ call.scorer = "NumericDiff"
    /\ result = Pending
    /\ result' = NumericDiff_eval(call.entry, call.output, call.expected)
    /\ UNCHANGED <<tasks, provider, boundary, defaults, instances, CACHE, requests, embedded, call, subcalls, matched>>

EmbeddingSimilarityEval ==
    /\ call.scorer = "EmbeddingSimilarity"
    /\ result = Pending
    /\ \E o \in EmbeddingSimilarity_eval(embeddingSimilarity, call.entry, CACHE,
                                          call.output, call.expected, Vectors) :
          /\ result' = o.result
          /\ requests' = requests \o o.requests
          /\ embedded' = o.embedded
          /\ CACHE' = o.cache
    /\ UNCHANGED <<tasks, provider, boundary, defaults, instances, call, subcalls, matched>>

NextExpected ==
    \/ LevenshteinEval
    \/ NumericDiffEval
    \/ EmbeddingSimilarityEval
    \/ ListContainsEval

SpecExpected == InitExpected /\ [][NextExpected]_vars

-----------------------------------------------------------------------------
(* A sequence of EmbeddingSimilarity evaluations that share the class cache *)

CacheInstances ==
    [prefix : {<<>>, <<"q">>},
     model : {"text-embedding-ada-002", "text-embedding-3-small"},
     expected_min : {Rat(7, 10)}]
CacheCalls ==
    [scorer : {"EmbeddingSimilarity"}, entry : Entries,
     output : {PyStr(<<"a">>), PyStr(<<"b">>)},
     expected : {PyStr(<<"a">>), PyStr(<<"b">>)}]
CacheVectors == {<<3, 4>>, <<4, 3>>}

InitCache ==
    /\ tasks = <<>>
    /\ ctor = NoCtor
    /\ listContains = NoListContains
    /\ jsonDiff = NoJSONDiff
    /\ embeddingSimilarity \in CacheInstances
    /\ CACHE = {}
    /\ requests = <<>>
    /\ embedded = <<>>
    /\ llmClassifier = NoLLMClassifier
    /\ NoRequest
    /\ NoDefaults
    /\ provider = NoProvider
    /\ call \in CacheCalls
    /\ result = Pending
    /\ subcalls = <<>>
    /\ matched = <<>>

\* After an evaluation the caller constructs an EmbeddingSimilarity and
\* starts the next evaluation; the class cache is kept.
EmbeddingSimilarityCall ==
    /\ call.scorer = "EmbeddingSimilarity"
    /\ result # Pending
    /\ embeddingSimilarity' \in CacheInstances
    /\ call' \in CacheCalls
    /\ result' = Pending
    /\ embedded' = <<>>
    /\ UNCHANGED <<tasks, provider, boundary, defaults, ctor, listContains, jsonDiff, llmClassifier, CACHE, requests, subcalls, matched>>

EmbeddingSimilarityAgain ==
    /\ call.scorer = "EmbeddingSimilarity"
    /\ result = Pending
    /\ \E o \in EmbeddingSimilarity_eval(embeddingSimilarity, call.entry, CACHE,
                                          call.output, call.expected, CacheVectors) :
          /\ result' = o.result
          /\ requests' = requests \o o.requests
          /\ embedded' = o.embedded
          /\ CACHE' = o.cache
    /\ UNCHANGED <<tasks, provider, boundary, defaults, instances, call, subcalls, matched>>

NextCache == EmbeddingSimilarityCall \/ EmbeddingSimilarityAgain

SpecCache == InitCache /\ [][NextCache]_vars

-----------------------------------------------------------------------------
(* Evaluating JSONDiff *)

\* A string scorer that gives the str "a" a Score of None.
NullOnA == [cls |-> "UserScorer", fault |-> "null", at |-> PyStr(<<"a">>)]

JSONDiffs ==
    {NoJSONDiff,
     [NoJSONDiff EXCEPT !.preserve_strings = TRUE],
     [NoJSONDiff EXCEPT !.string_scorer = NullOnA]}

InitJson ==
    /\ tasks = <<>>
    /\ ctor = NoCtor
    /\ listContains = NoListContains
    /\ jsonDiff \in JSONDiffs
    /\ embeddingSimilarity = NoEmbeddingSimilarity
    /\ CACHE = {}
    /\ requests = <<>>
    /\ embedded = <<>>
    /\ llmClassifier = NoLLMClassifier
    /\ NoRequest
    /\ NoDefaults
    /\ provider = NoProvider
    /\ call \in [scorer : {"JSONDiff"}, entry : Entries,
                 output : JsonValues, expected : JsonValues]
    /\ result = Pending
    /\ subcalls = <<>>
    /\ matched = <<>>

JSONDiffEval ==
    /\ call.scorer = "JSONDiff"
    /\ result = Pending
    /\ result' = JSONDiff_eval(jsonDiff, call.entry, call.output, call.expected)
    /\ UNCHANGED <<tasks, provider, boundary, defaults, instances, CACHE, requests, embedded, call, subcalls, matched>>

NextJson == JSONDiffEval

SpecJson == InitJson /\ [][NextJson]_vars

\* JSONDiff of a document against itself.
InitJsonSame ==
    /\ tasks = <<>>
    /\ ctor = NoCtor
    /\ listContains = NoListContains
    /\ jsonDiff \in JSONDiffs
    /\ embeddingSimilarity = NoEmbeddingSimilarity
    /\ CACHE = {}
    /\ requests = <<>>
    /\ embedded = <<>>
    /\ llmClassifier = NoLLMClassifier
    /\ NoRequest
    /\ NoDefaults
    /\ provider = NoProvider
    /\ call \in {[scorer |-> "JSONDiff", entry |-> e, output |-> x, expected |-> x] :
                    e \in Entries, x \in JsonMoreValues}
    /\ result = Pending
    /\ subcalls = <<>>
    /\ matched = <<>>

SpecJsonSame == InitJsonSame /\ [][NextJson]_vars

-----------------------------------------------------------------------------
(* Evaluating ExactMatch *)

ExactDocs ==
    {PyNone, PyNum(1), PyNum(2), PyStr(<<"a">>),
     PyList(<<>>), PyList(<<PyNum(1)>>),
     PyList(<<PyNum(1), PyNum(2)>>), PyList(<<PyNum(2), PyNum(1)>>),
     PyDict(<<>>), PyDict(<<[k |-> <<"a">>, v |-> PyNum(1)]>>),
     PyDict(<<[k |-> <<"a">>, v |-> PyNum(2)], [k |-> <<"b">>, v |-> PyNum(1)]>>),
     PyDict(<<[k |-> <<"b">>, v |-> PyNum(1)], [k |-> <<"a">>, v |-> PyNum(2)]>>)}

\* The documents, their JSON texts with and without whitespace, and their
\* str() forms.
ExactValues ==
    ExactDocs \cup
    {PyStr(JsonDefault(v)) : v \in ExactDocs} \cup
    {PyStr(json_dumps(v, <<",">>, <<":">>, FALSE)) : v \in ExactDocs} \cup
    {PyStr(Str(v)) : v \in ExactDocs}

InitExact ==
    /\ tasks = <<>>
    /\ ctor = NoCtor
    /\ listContains = NoListContains
    /\ jsonDiff = NoJSONDiff
    /\ embeddingSimilarity = NoEmbeddingSimilarity
    /\ CACHE = {}
    /\ requests = <<>>
    /\ embedded = <<>>
    /\ llmClassifier = NoLLMClassifier
    /\ NoRequest
    /\ NoDefaults
    /\ provider = NoProvider
    /\ call \in [scorer : {"ExactMatch"}, entry : Entries,
                 output : ExactValues, expected : ExactValues]
    /\ result = Pending
    /\ subcalls = <<>>
    /\ matched = <<>>

ExactMatchEval ==
    /\ call.scorer = "ExactMatch"
    /\ result = Pending
    /\ result' = ExactMatch_eval(call.entry, call.output, call.expected)
    /\ UNCHANGED <<tasks, provider, boundary, defaults, instances, CACHE, requests, embedded, call, subcalls, matched>>

NextExact == ExactMatchEval

SpecExact == InitExact /\ [][NextExact]_vars

(* Sending a request through run_cached_request / arun_cached_request *)

RequestFns ==
    [scorer : {"request"}, module : {"oai", "claude"},
     entry : {"run_cached_request", "arun_cached_request"}]

\* The responses the provider can give.
Responses == {"r1", "r2"}

InitRetry ==
    /\ tasks = <<>>
    /\ ctor = NoCtor
    /\ listContains = NoListContains
    /\ jsonDiff = NoJSONDiff
    /\ embeddingSimilarity = NoEmbeddingSimilarity
    /\ CACHE = {}
    /\ requests = <<>>
    /\ embedded = <<>>
    /\ llmClassifier = NoLLMClassifier
    /\ NoRequest
    /\ NoDefaults
    /\ provider = NoProvider
    /\ call \in RequestFns
    /\ result = Pending
    /\ subcalls = <<>>
    /\ matched = <<>>

\* A loop that also goes round again after an error other than RateLimitError.
Looping_mutCatchAll ==
    /\ call.scorer = "request"
    /\ retries < MaxRetries
    /\ (result = Pending \/ (result.kind = "Raise" /\ result.exc = "APIError"))

\* The loop is about to call the provider.
Looping ==
    /\ call.scorer = "request"
    /\ result = Pending
    /\ retries < MaxRetries

\* The provider answers: resp is bound, the loop breaks, resp is returned.
ProviderResponds ==
    /\ Looping
    /\ \E r \in Responses :
        /\ requests' = Append(requests, [outcome |-> "response", resp |-> r])
        /\ result' = Response(r)
    /\ UNCHANGED <<tasks, provider, boundary, defaults, instances, CACHE, embedded, call, subcalls, matched>>

\* The provider raises RateLimitError: the backoff grows, the loop sleeps
\* and counts the retry; when the count reaches the limit the loop ends
\* without a response.
ProviderRateLimits ==
    /\ Looping
    /\ requests' = Append(requests, [outcome |-> "RateLimitError", resp |-> ""])
    /\ sleep_time' = Backoff(sleep_time)
    /\ slept' = Append(slept, Backoff(sleep_time))
    /\ retries' = retries + 1
    /\ result' = IF retries + 1 < MaxRetries THEN Pending ELSE Exhausted(call.module)
    /\ UNCHANGED <<tasks, provider, defaults, instances, CACHE, embedded, call, subcalls, matched>>

\* The provider raises any other error: no handler catches it.
ProviderFails ==
    /\ Looping
    /\ requests' = Append(requests, [outcome |-> "APIError", resp |-> ""])
    /\ result' = Raise("APIError")
    /\ UNCHANGED <<tasks, provider, boundary, defaults, instances, CACHE, embedded, call, subcalls, matched>>

NextRetry == ProviderResponds \/ ProviderRateLimits \/ ProviderFails

\* Every provider call and every sleep comes back, so a pending loop keeps
\* taking steps.
SpecRetry == InitRetry /\ [][NextRetry]_vars /\ WF_vars(NextRetry)

(* Calling init() and reading the default models *)

Clients ==
    {NoClient,
     [isNone |-> FALSE, cls |-> "LLMClient", is_async |-> TRUE],
     [isNone |-> FALSE, cls |-> "OpenAI", is_async |-> FALSE]}

CompletionModels == {"gpt-4-turbo", "claude-3-5-sonnet-20241022"}
EmbeddingModels == {"text-embedding-3-large"}

DefaultModels ==
    {DefaultModelNone} \cup
    {DefaultModelStr(s) : s \in CompletionModels} \cup
    {DefaultModelDict(keys, StrModel(c), StrModel(e)) :
        keys \in SUBSET {"completion", "embedding"},
        c \in CompletionModels, e \in EmbeddingModels}

InitArgs == [scorer : {"init"}, client : Clients, is_async : BOOLEAN,
             default_model : DefaultModels]

\* What the two getters return.
Defaults(completion, embedding) ==
    [kind |-> "Return", name |-> completion, score |-> NoScore,
     metadata |-> <<>>, exc |-> embedding]

InitInit ==
    /\ tasks = <<>>
    /\ ctor = NoCtor
    /\ listContains = NoListContains
    /\ jsonDiff = NoJSONDiff
    /\ embeddingSimilarity = NoEmbeddingSimilarity
    /\ CACHE = {}
    /\ requests = <<>>
    /\ embedded = <<>>
    /\ llmClassifier = NoLLMClassifier
    /\ NoRequest
    /\ NoDefaults
    /\ provider = NoProvider
    /\ call = [scorer |-> "import", client |-> NoClient, is_async |-> FALSE,
               default_model |-> DefaultModelNone]
    /\ result = Pending
    /\ subcalls = <<>>
    /\ matched = <<>>

\* init(client, is_async, default_model)
init ==
    /\ call.scorer \in {"import", "init"}
    /\ \E args \in InitArgs :
        /\ call' = args
        /\ client_var' = IF ~args.client.isNone
                         THEN resolve_client(args.client, args.is_async)
                         ELSE NoClient
        /\ default_model_var' = init_default_model(args.default_model, default_model_var)
        /\ default_embedding_model_var' =
               init_default_embedding_model(args.default_model, default_embedding_model_var)
    /\ result' = Pending
    /\ UNCHANGED <<tasks, provider, boundary, instances, CACHE, requests, embedded, subcalls, matched>>

\* get_default_model() and get_default_embedding_model()
GetDefaults ==
    /\ call.scorer \in {"import", "init"}
    /\ result = Pending
    /\ result' = Defaults(get_default_model, get_default_embedding_model)
    /\ UNCHANGED <<tasks, provider, boundary, defaults, instances, CACHE, requests, embedded, call, subcalls, matched>>

NextInit == init \/ GetDefaults

SpecInit == InitInit /\ [][NextInit]_vars

(* Evaluating an LLM classifier *)

\* choice_scores tables: labels to scores in [0, 1].
ChoiceScores ==
    {<<[k |-> <<"Y">>, v |-> One], [k |-> <<"N">>, v |-> Zero]>>,
     <<[k |-> <<"Y">>, v |-> Rat(1, 2)]>>,
     <<[k |-> <<"N">>, v |-> One], [k |-> <<>>, v |-> Rat(1, 4)]>>}

LLMClassifiers == [name : {"Battle"}, choice_scores : ChoiceScores]

ToolCalls ==
    [name : {"select_choice", "other"}, arguments : {e.text : e \in ArgumentTexts}]

Messages ==
    {[has_tool_calls |-> FALSE, tool_calls |-> <<>>],
     [has_tool_calls |-> TRUE, tool_calls |-> <<>>]} \cup
    {[has_tool_calls |-> TRUE, tool_calls |-> <<c>>] : c \in ToolCalls}

\* The responses the provider may give to the completion request.
Completions ==
    {[choices |-> <<>>]} \cup {[choices |-> <<m>>] : m \in Messages}

InitClassifier ==
    /\ tasks = <<>>
    /\ ctor = NoCtor
    /\ listContains = NoListContains
    /\ jsonDiff = NoJSONDiff
    /\ embeddingSimilarity = NoEmbeddingSimilarity
    /\ llmClassifier \in LLMClassifiers
    /\ CACHE = {}
    /\ requests = <<>>
    /\ embedded = <<>>
    /\ NoRequest
    /\ NoDefaults
    /\ provider = NoProvider
    /\ call \in [scorer : {"LLMClassifier"}, entry : Entries,
                 output : {PyStr(<<"a">>)}, expected : {PyStr(<<"a">>)}]
    /\ result = Pending
    /\ subcalls = <<>>
    /\ matched = <<>>

\* eval / eval_async: one completion request, then the response is processed.
LLMClassifierEval ==
    /\ call.scorer = "LLMClassifier"
    /\ result = Pending
    /\ \E resp \in Completions :
        /\ requests' = Append(requests, [outcome |-> "response", resp |-> resp])
        /\ result' = LLMClassifier_eval(llmClassifier, call.entry, resp)
    /\ UNCHANGED <<tasks, provider, boundary, defaults, instances, CACHE, embedded, call, subcalls, matched>>

NextClassifier == LLMClassifierEval

SpecClassifier == InitClassifier /\ [][NextClassifier]_vars

(* Evaluating Faithfulness *)

\* Verdict lists longer than this are not explored.
MaxVerdicts == 2

\* What the provider answers to the two requests: the statements it
\* extracts and its verdict (0 or 1) on each.
ProviderAnswers ==
    [statements : {<<>>, <<"s1">>, <<"s1", "s2">>},
     faithfulness : SeqsUpTo({0, 1}, MaxVerdicts)]

OptionalText(chars) == {PyNone, PyStr(chars)}

InitFaithfulness ==
    /\ tasks = <<>>
    /\ ctor = NoCtor
    /\ listContains = NoListContains
    /\ jsonDiff = NoJSONDiff
    /\ embeddingSimilarity = NoEmbeddingSimilarity
    /\ llmClassifier = NoLLMClassifier
    /\ CACHE = {}
    /\ requests = <<>>
    /\ embedded = <<>>
    /\ NoRequest
    /\ NoDefaults
    /\ provider \in ProviderAnswers
    /\ call \in [scorer : {"Faithfulness"}, entry : Entries,
                 output : OptionalText(<<"a">>), expected : OptionalText(<<"b">>),
                 input : OptionalText(<<"q">>), context : OptionalText(<<"c">>)]
    /\ result = Pending
    /\ subcalls = <<>>
    /\ matched = <<>>

\* eval / eval_async of Faithfulness against the provider's answers.
FaithfulnessEval ==
    /\ call.scorer = "Faithfulness"
    /\ result = Pending
    /\ result' = Faithfulness_eval(call.entry, call.output, call.expected,
                                   call.input, call.context, provider).result
    /\ requests' = Faithfulness_eval(call.entry, call.output, call.expected,
                                     call.input, call.context, provider).requests
    /\ UNCHANGED <<tasks, provider, boundary, defaults, instances, CACHE, embedded, call, subcalls, matched>>

NextFaithfulness == FaithfulnessEval

SpecFaithfulness == InitFaithfulness /\ [][NextFaithfulness]_vars

(* Evaluating ContextRelevancy *)

\* Sentence lists longer than this are not explored.
MaxSentences == 2

Contexts ==
    {PyNone, PyStr(<<>>), PyStr(<<"a">>), PyStr(<<"a", "b">>), PyStr(<<"a", "b", "c">>),
     PyList(<<PyStr(<<"a">>), PyStr(<<"b">>)>>)}

\* The sentences the provider may extract.
Sentences == SeqsUpTo({<<>>, <<"a">>, <<"a", "b">>}, MaxSentences)

InitRelevancy ==
    /\ tasks = <<>>
    /\ ctor = NoCtor
    /\ listContains = NoListContains
    /\ jsonDiff = NoJSONDiff
    /\ embeddingSimilarity = NoEmbeddingSimilarity
    /\ llmClassifier = NoLLMClassifier
    /\ CACHE = {}
    /\ requests = <<>>
    /\ embedded = <<>>
    /\ NoRequest
    /\ NoDefaults
    /\ provider \in [sentences : Sentences]
    /\ call \in [scorer : {"ContextRelevancy"}, entry : Entries,
                 input : OptionalText(<<"q">>), context : Contexts]
    /\ result = Pending
    /\ subcalls = <<>>
    /\ matched = <<>>

\* eval / eval_async of ContextRelevancy against the provider's answer.
ContextRelevancyEval ==
    /\ call.scorer = "ContextRelevancy"
    /\ result = Pending
    /\ result' = ContextRelevancy_eval(call.entry, call.input, call.context,
                                       provider.sentences)
    /\ requests' = IF check_required(<<call.input, call.context>>)
                   THEN requests
                   ELSE Append(requests, [fn |-> "extract_sentences",
                                          question |-> call.input,
                                          context |-> call.context])
    /\ UNCHANGED <<tasks, provider, boundary, defaults, instances, CACHE,
                   embedded, call, subcalls, matched>>

NextRelevancy == ContextRelevancyEval

SpecRelevancy == InitRelevancy /\ [][NextRelevancy]_vars

(* Evaluating a partially bound scorer *)

PartialClasses == {"Levenshtein", "ContextRelevancy"}

\* The arguments bound by partial(**partial_kwargs).
BoundKwargs ==
    {Kwargs(keys, PyStr(e), PyStr(<<"q">>), PyStr(c)) :
        keys \in SUBSET {"expected", "input", "context"},
        e \in {<<"a">>, <<"a", "b">>}, c \in {<<"a">>, <<"a", "b">>}}

\* The keyword arguments of the call; expected is a named parameter.
CallKwargs ==
    {Kwargs(keys, PyNone, PyStr(<<"r">>), PyStr(<<"a", "b", "c">>)) :
        keys \in SUBSET {"input", "context"}}

InitPartial ==
    /\ tasks = <<>>
    /\ ctor = NoCtor
    /\ listContains = NoListContains
    /\ jsonDiff = NoJSONDiff
    /\ embeddingSimilarity = NoEmbeddingSimilarity
    /\ llmClassifier = NoLLMClassifier
    /\ CACHE = {}
    /\ requests = <<>>
    /\ embedded = <<>>
    /\ NoRequest
    /\ NoDefaults
    /\ provider = [sentences |-> <<(<<"a">>)>>]
    /\ call \in [scorer : {"PartialScorer"}, cls : PartialClasses, entry : Entries,
                 partial_kwargs : BoundKwargs,
                 output : {PyStr(<<"a">>)}, expected : {PyNone, PyStr(<<"b">>)},
                 kwargs : CallKwargs]
    /\ result = Pending
    /\ subcalls = <<>>
    /\ matched = <<>>

\* cls.partial(**partial_kwargs)().eval(output, expected, **kwargs), or
\* eval_async.
PartialScorerEval ==
    /\ call.scorer = "PartialScorer"
    /\ result = Pending
    /\ result' = IF call.entry = "eval_async"
                 THEN PartialScorer_eval_async(call.cls, call.partial_kwargs, call.output,
                                               call.expected, call.kwargs, provider.sentences)
                 ELSE PartialScorer_eval(call.cls, call.partial_kwargs, call.output,
                                         call.expected, call.kwargs, provider.sentences)
    /\ UNCHANGED <<tasks, provider, boundary, defaults, instances, CACHE, requests,
                   embedded, call, subcalls, matched>>

NextPartial == PartialScorerEval

SpecPartial == InitPartial /\ [][NextPartial]_vars

-----------------------------------------------------------------------------
(* Evaluating the scorers that aggregate over the items they are given *)

\* The provider's answers to Faithfulness, to ContextRecall (whether each
\* statement is attributed) and to AnswerCorrectness (the statements sorted
\* into TP, FP and FN, and the answer similarity).
NoAnswers ==
    [statements |-> <<>>, faithfulness |-> <<>>, attributed |-> <<>>,
     factuality |-> [TP |-> <<>>, FP |-> <<>>, FN |-> <<>>], similarity |-> One]

FaithfulnessAnswers ==
    {[NoAnswers EXCEPT !.statements = s, !.faithfulness = f] :
        s \in {<<>>, <<"s1">>}, f \in SeqsUpTo({0, 1}, MaxVerdicts)}

ContextRecallAnswers ==
    {[NoAnswers EXCEPT !.attributed = a] : a \in SeqsUpTo({0, 1}, MaxVerdicts)}

AnswerCorrectnessAnswers ==
    {[NoAnswers EXCEPT !.factuality = f, !.similarity = s] :
        f \in [TP : {<<>>, <<"s1">>}, FP : {<<>>, <<"s2">>}, FN : {<<>>, <<"s3">>}],
        s \in {One, Rat(1, 2)}}

AnswerCorrectnesses ==
    {DefaultWeights,
     [factuality_weight |-> One, answer_similarity_weight |-> Zero]}

RagasCalls(scorer) ==
    [scorer : {scorer}, entry : Entries,
     output : OptionalText(<<"a">>), expected : OptionalText(<<"b">>),
     input : OptionalText(<<"q">>), context : OptionalText(<<"c">>)]

InitAggregate ==
    /\ tasks = <<>>
    /\ listContains = NoListContains
    /\ embeddingSimilarity = NoEmbeddingSimilarity
    /\ llmClassifier = NoLLMClassifier
    /\ CACHE = {}
    /\ requests = <<>>
    /\ embedded = <<>>
    /\ NoRequest
    /\ NoDefaults
    /\ result = Pending
    /\ subcalls = <<>>
    /\ matched = <<>>
    /\ \/ /\ ctor = NoCtor
          /\ jsonDiff \in JSONDiffs
          /\ provider = NoAnswers
          /\ call \in [scorer : {"JSONDiff"}, entry : Entries,
                       output : JsonDicts, expected : JsonDicts]
       \/ /\ ctor = NoCtor
          /\ jsonDiff = NoJSONDiff
          /\ provider \in FaithfulnessAnswers
          /\ call \in RagasCalls("Faithfulness")
       \/ /\ ctor = NoCtor
          /\ jsonDiff = NoJSONDiff
          /\ provider \in ContextRecallAnswers
          /\ call \in RagasCalls("ContextRecall")
       \/ /\ ctor \in AnswerCorrectnesses
          /\ jsonDiff = NoJSONDiff
          /\ provider \in AnswerCorrectnessAnswers
          /\ call \in RagasCalls("AnswerCorrectness")

\* eval / eval_async of ContextRecall against the provider's answer.
ContextRecallEval ==
    /\ call.scorer = "ContextRecall"
    /\ result = Pending
    /\ result' = ContextRecall_eval(call.entry, call.output, call.expected,
                                    call.input, call.context, provider).result
    /\ requests' = ContextRecall_eval(call.entry, call.output, call.expected,
                                      call.input, call.context, provider).requests
    /\ UNCHANGED <<tasks, provider, boundary, defaults, instances, CACHE, embedded, call, subcalls, matched>>

\* eval / eval_async of AnswerCorrectness against the provider's answers.
AnswerCorrectnessEval ==
    /\ call.scorer = "AnswerCorrectness"
    /\ result = Pending
    /\ result' = AnswerCorrectness_eval(ctor, call.entry, call.output, call.expected,
                                        call.input, provider).result
    /\ requests' = AnswerCorrectness_eval(ctor, call.entry, call.output, call.expected,
                                          call.input, provider).requests
    /\ UNCHANGED <<tasks, provider, boundary, defaults, instances, CACHE, embedded, call, subcalls, matched>>

NextAggregate ==
    \/ JSONDiffEval
    \/ FaithfulnessEval
    \/ ContextRecallEval
    \/ AnswerCorrectnessEval

SpecAggregate == InitAggregate /\ [][NextAggregate]_vars

-----------------------------------------------------------------------------
(* Concurrent _embed / _a_embed calls that share the class cache *)

MaxTasks == 2

\* The calls in flight: threads in _embed, or tasks of one event loop in
\* _a_embed, each on an instance of its own.
EmbedTasks ==
    [1..MaxTasks ->
        [self : CacheInstances, value : {PyStr(<<"a">>), PyStr(<<"b">>)},
         pc : {"lookup"}, result : {<<>>}]]

InitEmbed ==
    /\ tasks \in EmbedTasks
    /\ ctor = NoCtor
    /\ listContains = NoListContains
    /\ jsonDiff = NoJSONDiff
    /\ embeddingSimilarity = NoEmbeddingSimilarity
    /\ llmClassifier = NoLLMClassifier
    /\ CACHE = {}
    /\ requests = <<>>
    /\ embedded = <<>>
    /\ NoRequest
    /\ NoDefaults
    /\ provider = NoProvider
    /\ call \in [scorer : {"embed"}, entry : {"_embed", "_a_embed"}]
    /\ result = Pending
    /\ subcalls = <<>>
    /\ matched = <<>>

\* A task takes the lock and looks its value up.
EmbedLookup ==
    \E t \in 1..MaxTasks :
        /\ call.scorer = "embed"
        /\ tasks[t].pc = "lookup"
        /\ tasks' = [tasks EXCEPT ![t] = Lookup(tasks[t], CACHE)]
        /\ UNCHANGED <<provider, boundary, defaults, instances, CACHE, requests,
                       embedded, call, result, subcalls, matched>>

\* The provider answers a task's request.
EmbedRequest ==
    \E t \in 1..MaxTasks, response \in CacheVectors :
        /\ call.scorer = "embed"
        /\ tasks[t].pc = "request"
        /\ tasks' = [tasks EXCEPT ![t] = Requested(tasks[t], response)]
        /\ requests' = Append(requests,
                              [input |-> tasks[t].self.prefix \o CacheKey(tasks[t].value),
                               model |-> tasks[t].self.model,
                               embedding |-> response,
                               value |-> CacheKey(tasks[t].value)])
        /\ UNCHANGED <<provider, boundary, defaults, instances, CACHE,
                       embedded, call, result, subcalls, matched>>

\* A task takes the lock and writes its embedding into the cache.
EmbedStore ==
    \E t \in 1..MaxTasks :
        /\ call.scorer = "embed"
        /\ tasks[t].pc = "store"
        /\ CACHE' = Store(tasks[t], CACHE)
        /\ tasks' = [tasks EXCEPT ![t].pc = "done"]
        /\ UNCHANGED <<provider, boundary, defaults, instances, requests,
                       embedded, call, result, subcalls, matched>>

NextEmbed == EmbedLookup \/ EmbedRequest \/ EmbedStore

SpecEmbed == InitEmbed /\ [][NextEmbed]_vars

-----------------------------------------------------------------------------
(* The claims about Score and ListContains *)

Done(scorer) == call.scorer = scorer /\ result # Pending
Returned(scorer) == call.scorer = scorer /\ result.kind = "Score"

\* C1: constructing a Score with a non-null score s raises a validation error
\* exactly when s < 0 or s > 1; it succeeds, keeping s, for every s in [0, 1]
\* and for a null score.
C1_ScoreRange ==
    Done("Score") =>
        LET s == ctor.score
            outside == s # NoScore /\ (s.n < 0 \/ s.n > s.d)
        IN  /\ outside <=> (result.kind = "Raise" /\ result.exc = "ValueError")
            /\ ~outside => result.kind = "Score" /\ result.score = s
                           /\ result.name = ctor.name

C1_Witness == Returned("Score") /\ ctor.score = One

NonEmptyCall == Len(call.output.l) > 0 /\ Len(call.expected.l) > 0

\* C2: ListContains scores 1 when output and expected are both empty and 0,
\* not null, when exactly one of them is, whatever the pairwise scorer and
\* allow_extra_entities.
C2_Emptiness ==
    (Done("ListContains") /\ ~IsNone(call.expected)) =>
        LET o == Len(call.output.l)
            e == Len(call.expected.l)
        IN  /\ (o = 0 /\ e = 0) => result.kind = "Score" /\ result.score = One
            /\ ((o = 0) # (e = 0)) => result.kind = "Score" /\ result.score = Zero

C2_Witness ==
    /\ Returned("ListContains")
    /\ Len(call.output.l) > 0
    /\ ~IsNone(call.expected) /\ Len(call.expected.l) = 0
    /\ listContains.allow_extra_entities
    /\ listContains.pairwise_scorer.fault = "raise"
    /\ result.score = Zero

Clamp01(x) == IF RLt(x, Zero) THEN Zero ELSE IF RLt(One, x) THEN One ELSE x

ListOf(strings) == PyList([k \in 1..Len(strings) |-> PyStr(strings[k])])

\* C3: for non-empty lists the score is clamp(sum of the matched pairs'
\* similarities / denominator, 0, 1), the denominator being max(len(output),
\* len(expected)) without allow_extra_entities and len(expected) with it;
\* (['a'], ['a','b']) scores 1/2, (['a','b'], ['a']) scores 1/2 by default
\* and 1 with allow_extra_entities.
C3_Aggregate ==
    (Returned("ListContains") /\ NonEmptyCall) =>
        LET o == Len(call.output.l)
            e == Len(call.expected.l)
            den == IF listContains.allow_extra_entities THEN e
                   ELSE IF o > e THEN o ELSE e
            pairs == result.metadata
            sum == RSum([k \in 1..Len(pairs) |-> pairs[k].similarity])
            plain == listContains.pairwise_scorer.fault = "none"
        IN  /\ result.score = Clamp01(Rat(sum.n, sum.d * den))
            /\ (plain /\ call.output = ListOf(<<(<<"a">>)>>)
                      /\ call.expected = ListOf(<<(<<"a">>), (<<"b">>)>>))
               => result.score = Rat(1, 2)
            /\ (plain /\ call.output = ListOf(<<(<<"a">>), (<<"b">>)>>)
                      /\ call.expected = ListOf(<<(<<"a">>)>>))
               => result.score = IF listContains.allow_extra_entities
                                 THEN One ELSE Rat(1, 2)

C3_Witness ==
    /\ Returned("ListContains")
    /\ listContains.allow_extra_entities
    /\ call.output = ListOf(<<(<<"a">>), (<<"b">>)>>)
    /\ call.expected = ListOf(<<(<<"a">>)>>)
    /\ result.score = One

\* The similarity the pairwise scorer gives output[i] against expected[j],
\* a null score counting as 0.
SimilarityAt(i, j) ==
    OrZero(Pairwise_run_eval_sync(listContains.pairwise_scorer,
                                  call.output.l[i], call.expected.l[j]).score)

\* Every one-to-one pairing of rows with columns, complete or not,
\* as functions from the rows paired to their columns.
Pairings(n, m) ==
    UNION {{f \in [R -> 1..m] : \A i, j \in R : i # j => f[i] # f[j]} : R \in SUBSET (1..n)}

RECURSIVE PairingSum(_, _)
PairingSum(f, R) ==
    IF R = {} THEN Zero
    ELSE LET i == CHOOSE i \in R : TRUE
         IN  RAdd(SimilarityAt(i, f[i]), PairingSum(f, R \ {i}))

\* C4: for non-empty lists the matched pairs are a one-to-one matching of the
\* similarity matrix, of at most min(len(output), len(expected)) pairs, whose
\* total similarity is the largest any one-to-one pairing reaches.
C4_OptimalMatching ==
    (Returned("ListContains") /\ NonEmptyCall) =>
        LET o == Len(call.output.l)
            e == Len(call.expected.l)
            K == Len(matched)
            total == RSum([k \in 1..K |-> SimilarityAt(matched[k][1], matched[k][2])])
        IN  /\ K <= (IF o < e THEN o ELSE e)
            /\ \A k \in 1..K : matched[k][1] \in 1..o /\ matched[k][2] \in 1..e
            /\ \A k, l \in 1..K :
                  k # l => matched[k][1] # matched[l][1] /\ matched[k][2] # matched[l][2]
            /\ Len(result.metadata) = K
            /\ \A k \in 1..K :
                  /\ result.metadata[k].output = call.output.l[matched[k][1]]
                  /\ result.metadata[k].expected = call.expected.l[matched[k][2]]
                  /\ result.metadata[k].similarity =
                        SimilarityAt(matched[k][1], matched[k][2])
            /\ \A f \in Pairings(o, e) : RLe(PairingSum(f, DOMAIN f), total)

\* The first row's best column is the one the second row needs.
C4_Witness ==
    /\ Returned("ListContains")
    /\ listContains.pairwise_scorer.fault = "none"
    /\ ~listContains.allow_extra_entities
    /\ call.output = ListOf(<<(<<"a", "b">>), (<<"a">>)>>)
    /\ call.expected = ListOf(<<(<<"a">>), (<<"b">>)>>)
    /\ matched = <<(<<1, 2>>), (<<2, 1>>)>>
    /\ result.score = Rat(3, 4)

Reorderings(seq) ==
    {[k \in 1..Len(seq) |-> seq[f[k]]] : f \in Injections(Len(seq), Len(seq))}

\* C5: with the pairwise scorer fixed, the score does not change when the
\* output list or the expected list is permuted, with and without
\* allow_extra_entities.
C5_OrderIndependent ==
    Returned("ListContains") =>
        /\ \A po \in Reorderings(call.output.l) :
              \A r \in ListContains_eval(listContains, call.entry, PyList(po),
                                         call.expected) :
                  r.result.kind = "Score" /\ r.result.score = result.score
        /\ \A pe \in Reorderings(call.expected.l) :
              \A r \in ListContains_eval(listContains, call.entry, call.output,
                                         PyList(pe)) :
                  r.result.kind = "Score" /\ r.result.score = result.score

C5_Witness ==
    /\ Returned("ListContains")
    /\ listContains.allow_extra_entities
    /\ call.output = ListOf(<<(<<"a">>), (<<"a", "b">>)>>)
    /\ call.expected = ListOf(<<(<<"b">>), (<<"a">>)>>)
    /\ result.score = Rat(3, 4)

InsertAt(seq, pos, x) ==
    [k \in 1..(Len(seq) + 1) |->
        IF k < pos THEN seq[k] ELSE IF k = pos THEN x ELSE seq[k - 1]]

\* x has similarity 0 to every expected item.
Unrelated(x) ==
    \A j \in 1..Len(call.expected.l) :
        LET r == Pairwise_run_eval_sync(listContains.pairwise_scorer, x,
                                        call.expected.l[j])
        IN  r.kind = "Score" /\ OrZero(r.score) = Zero

\* Adding one unrelated item to the output, anywhere, moves the score only
\* in the direction allow_extra_entities allows.
Monotone ==
    \A x \in Items : Unrelated(x) =>
        \A pos \in 1..(Len(call.output.l) + 1) :
            \A r \in ListContains_eval(listContains, call.entry,
                                       PyList(InsertAt(call.output.l, pos, x)),
                                       call.expected) :
                /\ r.result.kind = "Score"
                /\ listContains.allow_extra_entities
                      => RLe(result.score, r.result.score)
                /\ ~listContains.allow_extra_entities
                      => RLe(r.result.score, result.score)

\* C6, as stated: for a fixed expected list, adding unrelated items to the
\* output never decreases the score when allow_extra_entities is true and
\* never increases it when it is false.
C6_Original == Returned("ListContains") => Monotone

\* C6, amended: the same for a fixed non-empty expected list.
C6_Monotone == (Returned("ListContains") /\ Len(call.expected.l) > 0) => Monotone

C6_Witness ==
    /\ Returned("ListContains")
    /\ listContains.allow_extra_entities
    /\ call.output = ListOf(<<(<<"a">>)>>)
    /\ call.expected = ListOf(<<(<<"a">>)>>)
    /\ Unrelated(PyStr(<<"b">>))
    /\ result.score = One

\* C7: when a pairwise call raises, on the sync or the async path, the
\* evaluation raises that error, returns no Score, and makes no further
\* pairwise call.
C7_ErrorsPropagate ==
    (Done("ListContains") /\ ~IsNone(call.expected)) =>
        /\ \A k \in 1..Len(subcalls) :
              Pairwise_run_eval_sync(listContains.pairwise_scorer,
                                     subcalls[k][1], subcalls[k][2]).kind = "Raise"
              => /\ result.kind = "Raise"
                 /\ result.exc = "RuntimeError"
                 /\ k = Len(subcalls)
        /\ (\E i \in 1..Len(call.output.l), j \in 1..Len(call.expected.l) :
                Pairwise_run_eval_sync(listContains.pairwise_scorer,
                                       call.output.l[i], call.expected.l[j]).kind = "Raise")
           => result.kind = "Raise" /\ result.exc = "RuntimeError"

C7_Witness ==
    /\ Done("ListContains")
    /\ call.entry = "eval_async"
    /\ result.kind = "Raise" /\ result.exc = "RuntimeError"
    /\ Len(subcalls) = 2
    /\ Len(call.output.l) * Len(call.expected.l) = 4

-----------------------------------------------------------------------------
(* The claims about a missing expected value *)

\* C8: Levenshtein, NumericDiff, EmbeddingSimilarity and ListContains raise
\* when expected is None, on eval and on eval_async, and have then made no
\* pairwise call, no assignment, no embedding request and no cache entry.
C8_ExpectedRequired ==
    (result # Pending /\ IsNone(call.expected)
        /\ call.scorer \in {"Levenshtein", "NumericDiff", "EmbeddingSimilarity",
                            "ListContains"}) =>
        /\ result.kind = "Raise"
        /\ result.exc = "ValueError"
        /\ subcalls = <<>>
        /\ matched = <<>>
        /\ requests = <<>>
        /\ embedded = <<>>
        /\ CACHE = {}

C8_Witness ==
    /\ Done("EmbeddingSimilarity")
    /\ call.entry = "eval_async"
    /\ IsNone(call.expected)
    /\ call.output = PyStr(<<"a">>)
    /\ result.kind = "Raise"

-----------------------------------------------------------------------------
(* The claims about JSONDiff *)

\* The sum of the scores f[k] for k in S.
RECURSIVE ScoreSum(_, _)
ScoreSum(f, S) ==
    IF S = {} THEN Zero
    ELSE LET k == CHOOSE x \in S : TRUE
         IN  RAdd(f[k], ScoreSum(f, S \ {k}))

Compared(side) == Parsed(jsonDiff, IF side = 1 THEN call.output ELSE call.expected)

KeyUnion ==
    {Compared(1).d[i].k : i \in 1..Len(Compared(1).d)} \cup
    {Compared(2).d[i].k : i \in 1..Len(Compared(2).d)}

KeyChild(k) == json_diff(jsonDiff, DictGet(Compared(1).d, k), DictGet(Compared(2).d, k)).score

\* C9: when JSONDiff compares two mappings that are not both empty, its
\* score is the mean of the child scores json_diff(o1.get(k), o2.get(k))
\* over the keys k of either mapping whose child score is not null; two
\* empty mappings score 1.
C9_MappingMean ==
    (Done("JSONDiff") /\ Compared(1).t = "dict" /\ Compared(2).t = "dict") =>
        /\ KeyUnion = {} => result.kind = "Score" /\ result.score = One
        /\ (KeyUnion # {} /\ result.kind = "Score") =>
              LET child == [k \in KeyUnion |-> KeyChild(k)]
                  counted == {k \in KeyUnion : child[k] # NoScore}
              IN  /\ counted # {}
                  /\ result.score =
                        RDiv(ScoreSum(child, counted), RInt(Cardinality(counted)))

C9_Witness ==
    /\ Returned("JSONDiff")
    /\ jsonDiff.string_scorer = NullOnA
    /\ call.output = PyDict(<<[k |-> <<"a">>, v |-> PyStr(<<"a">>)],
                              [k |-> <<"b">>, v |-> PyNum(1)]>>)
    /\ call.expected = PyDict(<<[k |-> <<"a">>, v |-> PyStr(<<"a">>)],
                                [k |-> <<"b">>, v |-> PyNum(2)]>>)
    /\ result.score = Rat(2, 3)

Positions == 1..Min2(Len(Compared(1).l), Len(Compared(2).l))

PositionChild(i) == json_diff(jsonDiff, Compared(1).l[i], Compared(2).l[i]).score

\* C10: when JSONDiff compares two lists that are not both empty, its score
\* is the sum of the child scores of the elements at the same position, up to
\* the shorter length, divided by the longer length: trailing elements count
\* 0 and nothing is reordered, so [1, 2] against [2, 1] scores 2/3; two empty
\* lists score 1.
C10_ListPositional ==
    (Done("JSONDiff") /\ Compared(1).t = "list" /\ Compared(2).t = "list") =>
        /\ (Len(Compared(1).l) = 0 /\ Len(Compared(2).l) = 0) =>
              result.kind = "Score" /\ result.score = One
        /\ (Len(Compared(1).l) + Len(Compared(2).l) > 0 /\ result.kind = "Score") =>
              LET child == [i \in Positions |-> PositionChild(i)]
                  counted == {i \in Positions : child[i] # NoScore}
              IN  result.score =
                      RDiv(ScoreSum(child, counted),
                           RInt(Max2(Len(Compared(1).l), Len(Compared(2).l))))
        /\ (jsonDiff = NoJSONDiff
              /\ call.output = PyList(<<PyNum(1), PyNum(2)>>)
              /\ call.expected = PyList(<<PyNum(2), PyNum(1)>>)) =>
              result.kind = "Score" /\ result.score = Rat(2, 3)

C10_Witness ==
    /\ Returned("JSONDiff")
    /\ jsonDiff = NoJSONDiff
    /\ call.output = PyList(<<PyNum(1), PyNum(2)>>)
    /\ call.expected = PyList(<<PyNum(2), PyNum(1)>>)
    /\ result.score = Rat(2, 3)

DefaultSubScorers ==
    jsonDiff.string_scorer = DefaultPairwise /\ jsonDiff.number_scorer = NumericDiffScorer

\* The canonical string of a value: keys sorted, no whitespace between tokens.
Canonical(v) == PyStr(json_dumps(v, <<",">>, <<":">>, TRUE))

\* C11: with the default sub-scorers JSONDiff returns a score in [0, 1] and
\* never raises; two values of different kinds, neither of them null, score
\* as the string scorer scores their canonical strings, and [] against {}
\* scores 0.
C11_AlwaysDefined ==
    (Done("JSONDiff") /\ DefaultSubScorers) =>
        /\ result.kind = "Score"
        /\ result.score # NoScore
        /\ RLe(Zero, result.score) /\ RLe(result.score, One)
        /\ (Compared(1).t # Compared(2).t /\ Compared(1).t # "none"
              /\ Compared(2).t # "none") =>
              result.score =
                  Levenshtein_run_eval_sync(Canonical(Compared(1)),
                                            Canonical(Compared(2))).score
        /\ (call.output = PyList(<<>>) /\ call.expected = PyDict(<<>>)) =>
              result.score = Zero

C11_Witness ==
    /\ Returned("JSONDiff")
    /\ DefaultSubScorers
    /\ call.output = PyDict(<<[k |-> <<"b">>, v |-> PyNum(1)], [k |-> <<"a">>, v |-> PyNum(2)]>>)
    /\ call.expected = PyList(<<PyStr(<<"a">>), PyNum(1)>>)
    /\ result.score # Zero

\* C12: with sub-scorers that score identical inputs 1, JSONDiff of a value
\* against itself is exactly 1, whatever the value: a mapping, a list, a
\* str, a number (0 and negative numbers included), null, or a nesting.
C12_Identity ==
    (Done("JSONDiff") /\ DefaultSubScorers /\ call.output = call.expected) =>
        result.kind = "Score" /\ result.score = One

C12_Witness ==
    /\ Returned("JSONDiff")
    /\ DefaultSubScorers
    /\ call.output = PyList(<<PyNum(0), PyNum(-1)>>)
    /\ call.expected = call.output
    /\ result.score = One

-----------------------------------------------------------------------------
(* The claims about ExactMatch *)

EitherIsObject == needs_json(call.output) \/ needs_json(call.expected)

\* The normalised form of a value: a dict or list is its JSON text in its
\* own key order, a str that holds JSON is re-serialised when either side is
\* a dict or list, anything else is its str() form.
NormalForm(v) ==
    IF needs_json(v) THEN JsonDefault(v)
    ELSE IF v.t = "str" /\ EitherIsObject /\ json_loads(v.s).ok
    THEN JsonDefault(json_loads(v.s).value)
    ELSE Str(v)

\* C13: ExactMatch scores 1 when the normalised forms of output and expected
\* are equal and 0 otherwise.
C13_ExactMatch ==
    Done("ExactMatch") =>
        /\ result.kind = "Score"
        /\ result.score = IF NormalForm(call.output) = NormalForm(call.expected)
                          THEN One ELSE Zero

-----------------------------------------------------------------------------
(* The claims about EmbeddingSimilarity *)

Compares == Done("EmbeddingSimilarity") /\ ~IsNone(call.expected)

\* The cosine similarity the evaluation computed: capped at 1, and 0 when
\* the product of the magnitudes is 0.
Cosine ==
    IF Dot(embedded[1], embedded[1]) = 0 \/ Dot(embedded[2], embedded[2]) = 0
    THEN Zero
    ELSE RMin(RDiv(RInt(Dot(embedded[1], embedded[2])),
                   Magnitudes(embedded[1], embedded[2])), One)

Floor == embeddingSimilarity.expected_min

Rescaled ==
    /\ result.kind = "Score"
    /\ result.score = RMax(RDiv(RSub(Cosine, Floor), RSub(One, Floor)), Zero)
    /\ RLe(Zero, result.score) /\ RLe(result.score, One)
    /\ RLe(Cosine, Floor) => result.score = Zero

SameVector == embedded[1] = embedded[2] /\ Dot(embedded[1], embedded[1]) # 0

RequestFor(value, embedding) ==
    [input |-> embeddingSimilarity.prefix \o normalize_value(value, FALSE).s,
     model |-> embeddingSimilarity.model,
     embedding |-> embedding]

Answered(request) == \E i \in 1..Len(requests) : requests[i] = request

\* C15: in any sequence of evaluations, by instances of any prefix and
\* model, each embedding an evaluation compares is the provider's answer to
\* the request for that instance's own input: prefix + normalized value,
\* under its model.
C15_CacheServesOwnInput ==
    Compares =>
        /\ Answered(RequestFor(call.output, embedded[1]))
        /\ Answered(RequestFor(call.expected, embedded[2]))

-----------------------------------------------------------------------------
(* The claims about the request loop and the default models *)

Requesting == call.scorer = "request"

RateLimited(i) == requests[i].outcome = "RateLimitError"

\* The attempts are at most 100; an attempt is followed by another only
\* after it met a rate-limit error, and a sleep comes before each retry;
\* each sleep is 1.5 times the one before; what is returned is the one
\* response the provider gave, on the last attempt; and a rate-limit error
\* ends the loop with an error only when it is the 100th in a row.
RetryBounded ==
    /\ Len(requests) <= 100
    /\ \A i \in 1..(Len(requests) - 1) : RateLimited(i)
    /\ Len(slept) = Cardinality({i \in 1..Len(requests) : RateLimited(i)})
    /\ \A i \in 1..(Len(slept) - 1) : FDiv(slept[i + 1], slept[i]) = Factored(-1, 1, 0)
    /\ result.kind = "Return" =>
          /\ requests[Len(requests)].outcome = "response"
          /\ result.name = requests[Len(requests)].resp
    /\ (result.kind = "Raise" /\ RateLimited(Len(requests))) =>
          /\ Len(requests) = 100
          /\ \A i \in 1..100 : RateLimited(i)
    /\ (Len(requests) = 100 /\ RateLimited(100)) => result.kind = "Raise"

InitCalled == call'.scorer = "init" /\ result' = Pending

\* The object form sets each model whose key it contains and leaves each
\* other model as it was.
ObjectFormKept ==
    /\ IF "completion" \in call'.default_model.keys
       THEN default_model_var' = call'.default_model.completion
       ELSE default_model_var' = default_model_var
    /\ IF "embedding" \in call'.default_model.keys
       THEN default_embedding_model_var' = call'.default_model.embedding
       ELSE default_embedding_model_var' = default_embedding_model_var

\* C17: every init() call leaves the default models as follows: a string
\* default_model sets the completion model and resets the embedding model to
\* the built-in default; an object-form default_model changes only the models
\* whose keys it contains and leaves the other as previously configured;
\* init() without default_model resets both.
C17_InitModels ==
    [][InitCalled =>
          /\ call'.default_model.form = "str" =>
                /\ get_default_model' = call'.default_model.s
                /\ default_embedding_model_var' = NoneModel
          /\ call'.default_model.form = "dict" => ObjectFormKept
          /\ call'.default_model.form = "None" =>
                /\ default_model_var' = NoneModel
                /\ default_embedding_model_var' = NoneModel]_vars

\* C18: when no default model is configured, get_default_model() returns
\* 'gpt-4o' and get_default_embedding_model() returns
\* 'text-embedding-ada-002'.
C18_BuiltInDefaults ==
    (/\ call.scorer \in {"import", "init"}
     /\ result.kind = "Return"
     /\ default_model_var = NoneModel
     /\ default_embedding_model_var = NoneModel) =>
        /\ result.name = "gpt-4o"
        /\ result.exc = "text-embedding-ada-002"

-----------------------------------------------------------------------------
(* The claims about the LLM classifier *)

Classifying == call.scorer = "LLMClassifier" /\ result # Pending

\* The response the provider gave, its first message and first tool call.
Completion == requests[Len(requests)].resp
NoChoices == Len(Completion.choices) = 0
NoToolCall ==
    \/ ~Completion.choices[1].has_tool_calls
    \/ Len(Completion.choices[1].tool_calls) = 0
ToolCall == Completion.choices[1].tool_calls[1]
WellFormed == ~NoChoices /\ ~NoToolCall /\ ToolCall.name = "select_choice"

\* The arguments carry a label: they are the JSON text of an object whose
\* "choice" is a string.
Labelled(label) ==
    ToolCall.arguments = JsonDefault(PyDict(<<[k |-> KeyChoice, v |-> PyStr(label)]>>))

\* The label without its surrounding whitespace (no label of the model has
\* whitespace inside).
Trimmed(label) == SelectSeq(label, LAMBDA c : c \notin Whitespace)

TableScores(label) ==
    {llmClassifier.choice_scores[i].v :
        i \in {j \in 1..Len(llmClassifier.choice_scores) :
                  llmClassifier.choice_scores[j].k = Trimmed(label)}}

\* C19: the classifier raises, and returns no Score, when the response has
\* no choices, no tool call, a tool call for a function other than
\* select_choice, or a label that is not a key of choice_scores; for a label
\* that is a key once trimmed, the score is the table's entry for it.
C19_HardFailure ==
    Classifying =>
        /\ ~WellFormed => result.kind = "Raise"
        /\ WellFormed =>
              \A label \in Labels :
                  Labelled(label) =>
                      IF TableScores(label) = {}
                      THEN result.kind = "Raise"
                      ELSE /\ result.kind = "Score"
                           /\ TableScores(label) = {result.score}

C19_Witness ==
    /\ Classifying
    /\ WellFormed
    /\ Labelled(<<" ", "Y", "\n">>)
    /\ result.kind = "Score"
    /\ result.score = Rat(1, 2)

-----------------------------------------------------------------------------
(* The claim about the two call paths *)

OtherEntry == IF call.entry = "eval" THEN "eval_async" ELSE "eval"

\* What the other call path gives for the same arguments and the same
\* provider answers.
OtherPath ==
    Faithfulness_eval(OtherEntry, call.output, call.expected,
                      call.input, call.context, provider)

\* C20: eval and eval_async have identical semantics: for the same inputs
\* and the same provider responses they raise for the same inputs and
\* return the same score.
C20_SamePaths ==
    (call.scorer = "Faithfulness" /\ result # Pending) =>
        /\ result.kind = OtherPath.result.kind
        /\ result.score = OtherPath.result.score

-----------------------------------------------------------------------------
(* The claims about the ragas scorers *)

\* The context as one string, and the total length of the sentences.
ContextLength ==
    IF call.context.t = "list"
    THEN Len(call.context.l) - 1 + VerdictSum([i \in 1..Len(call.context.l) |->
                                                  Len(call.context.l[i].s)])
    ELSE Len(call.context.s)
SentenceLength == VerdictSum([i \in 1..Len(provider.sentences) |-> Len(provider.sentences[i])])

\* C21: ContextRelevancy returns a Score with score exactly 1 when the
\* sentences the model returned are together longer than the context, and
\* otherwise the total length of the sentences divided by the length of the
\* context.
C21_Clamped ==
    (/\ call.scorer = "ContextRelevancy"
     /\ result # Pending
     /\ ~IsNone(call.input) /\ ~IsNone(call.context)
     /\ ContextLength > 0) =>
        /\ result.kind = "Score"
        /\ result.score = IF SentenceLength > ContextLength
                          THEN One
                          ELSE Rat(SentenceLength, ContextLength)

-----------------------------------------------------------------------------
(* The claim about partial *)

\* The argument a plain scorer receives under a name when it is called with
\* {**p, **k}: the call's value if the call gives one (a non-null expected
\* included), else the bound value, else the default None.
Effective(key) ==
    IF key = "expected" /\ ~IsNone(call.expected) THEN call.expected
    ELSE IF key \in call.kwargs.keys THEN call.kwargs[key]
    ELSE IF key \in call.partial_kwargs.keys THEN call.partial_kwargs[key]
    ELSE PyNone

\* What C() returns for the merged arguments on the same call path.
Unbound ==
    IF call.cls = "Levenshtein"
    THEN Levenshtein_eval(call.entry, call.output, Effective("expected"))
    ELSE ContextRelevancy_eval(call.entry, Effective("input"), Effective("context"),
                               provider.sentences)

\* C22: C.partial(**p)() evaluated on (output, expected, **k) gives what C()
\* gives for the merged arguments {**p, **k}: call-time arguments override
\* bound ones, a null expected at call time does not override a bound
\* expected, both call paths merge alike, and a Score carries C's own name.
C22_Partial ==
    (call.scorer = "PartialScorer" /\ result # Pending) =>
        /\ result = Unbound
        /\ result.kind = "Score" => result.name = call.cls

C22_Witness ==
    /\ call.scorer = "PartialScorer"
    /\ call.cls = "ContextRelevancy"
    /\ call.partial_kwargs.keys = {"input", "context"}
    /\ call.partial_kwargs.context = PyStr(<<"a">>)
    /\ call.kwargs.keys = {"context"}
    /\ result.kind = "Score"
    /\ result.score = Rat(1, 3)

\* The pairwise scorer returns a Score of None for this pair of items.
NullPair(output, expected) ==
    /\ listContains.pairwise_scorer.fault = "null"
    /\ (listContains.pairwise_scorer.at = output
        \/ listContains.pairwise_scorer.at = expected)

\* C23: a null pairwise score is replaced by 0 before the cost matrix is
\* built: no matched pair carries a null similarity, a pair the scorer gave
\* null contributes 0 to the aggregate, and a null pairwise score neither
\* fails the evaluation nor makes its score null.
C23_NullIsZero ==
    (Done("ListContains") /\ NonEmptyCall
        /\ listContains.pairwise_scorer.fault = "null") =>
        /\ result.kind = "Score"
        /\ result.score # NoScore
        /\ \A k \in 1..Len(result.metadata) :
              /\ result.metadata[k].similarity # NoScore
              /\ NullPair(result.metadata[k].output, result.metadata[k].expected)
                 => result.metadata[k].similarity = Zero
        /\ (\A i \in 1..Len(call.output.l), j \in 1..Len(call.expected.l) :
               NullPair(call.output.l[i], call.expected.l[j]))
           => result.score = Zero

C23_Witness ==
    /\ Returned("ListContains") /\ NonEmptyCall
    /\ \E k \in 1..Len(result.metadata) :
          /\ NullPair(result.metadata[k].output, result.metadata[k].expected)
          /\ result.metadata[k].similarity = Zero
    /\ RLt(Zero, result.score)

\* The pairwise scorer leaves [0, 1] for this pair of items, on the side named.
OutOfRange(side, output, expected) ==
    /\ listContains.pairwise_scorer.fault = side
    /\ (listContains.pairwise_scorer.at = output
        \/ listContains.pairwise_scorer.at = expected)

InUnit(x) == x # NoScore /\ RLe(Zero, x) /\ RLe(x, One)

\* C24: every similarity is clamped into [0, 1] before matching: a pair the
\* pairwise scorer scored above 1 counts as 1 and one it scored below 0 as 0,
\* every similarity in the metadata pairs lies in [0, 1], and so does the
\* final score.
C24_ClampedOnInput ==
    (Returned("ListContains") /\ NonEmptyCall) =>
        /\ InUnit(result.score)
        /\ \A k \in 1..Len(result.metadata) :
              /\ InUnit(result.metadata[k].similarity)
              /\ OutOfRange("above", result.metadata[k].output,
                            result.metadata[k].expected)
                 => result.metadata[k].similarity = One
              /\ OutOfRange("below", result.metadata[k].output,
                            result.metadata[k].expected)
                 => result.metadata[k].similarity = Zero

Required(values) == \A i \in 1..Len(values) : ~IsNone(values[i])

\* The two mappings are not both empty and every key's child score is null.
AllChildrenNull ==
    /\ call.output.t = "dict" /\ call.expected.t = "dict"
    /\ Len(call.output.d) + Len(call.expected.d) > 0
    /\ \A i \in 1..Len(AllKeys(call.output.d, call.expected.d)) :
          LET k == AllKeys(call.output.d, call.expected.d)[i]
              child == json_diff(jsonDiff, DictGet(call.output.d, k),
                                 DictGet(call.expected.d, k))
          IN  ~child.raised /\ child.score = NoScore

\* The evaluation aggregates over zero items.
ZeroItems ==
    \/ /\ call.scorer = "ContextRecall"
       /\ Required(<<call.input, call.expected, call.context>>)
       /\ Len(provider.attributed) = 0
    \/ /\ call.scorer = "Faithfulness"
       /\ Required(<<call.input, call.output, call.context>>)
       /\ Len(provider.faithfulness) = 0
    \/ /\ call.scorer = "AnswerCorrectness"
       /\ Required(<<call.input, call.expected, call.output>>)
       /\ provider.factuality = [TP |-> <<>>, FP |-> <<>>, FN |-> <<>>]
    \/ /\ call.scorer = "JSONDiff"
       /\ AllChildrenNull

\* C25: a scorer that aggregates over zero items (ContextRecall with no
\* statements, Faithfulness with no judged statements, AnswerCorrectness with
\* empty TP, FP and FN, JSONDiff over mappings whose child scores are all
\* null) returns a Score whose score is null and does not raise.
C25_ZeroItemsNull ==
    (result # Pending /\ ZeroItems) =>
        result.kind = "Score" /\ result.score = NoScore

\* The key occurs in exactly one of the two mappings compared.
InOneOnly(k) == HasKey(call.output.d, k) # HasKey(call.expected.d, k)

\* C26: a key missing from one of the two mappings JSONDiff compares scores
\* 0 as a child, whatever the other mapping holds under it, an explicit null
\* included; two mappings with no key in common score 0.
C26_MissingKeyIsZero ==
    (Done("JSONDiff") /\ call.output.t = "dict" /\ call.expected.t = "dict") =>
        LET keys == AllKeys(call.output.d, call.expected.d)
        IN  /\ \A i \in 1..Len(keys) :
                  InOneOnly(keys[i]) =>
                      json_diff(jsonDiff, DictGet(call.output.d, keys[i]),
                                DictGet(call.expected.d, keys[i])) = Diffed(Zero)
            /\ (Len(keys) > 0 /\ \A i \in 1..Len(keys) : InOneOnly(keys[i]))
               => result.kind = "Score" /\ result.score = Zero

\* No pairwise call of the evaluation raises.
PairwiseReturns ==
    \A i \in 1..Len(call.output.l), j \in 1..Len(call.expected.l) :
        Pairwise_run_eval_sync(listContains.pairwise_scorer,
                               call.output.l[i], call.expected.l[j]).kind = "Score"

\* C27: for non-empty lists and either setting of allow_extra_entities the
\* matched pairs are no more than the denominator, which is positive: the
\* assertion holds, the division is defined, and the evaluation returns a
\* Score.
C27_AssertionHolds ==
    (Done("ListContains") /\ NonEmptyCall /\ PairwiseReturns) =>
        LET o == Len(call.output.l)
            e == Len(call.expected.l)
            den == IF listContains.allow_extra_entities THEN e
                   ELSE IF o > e THEN o ELSE e
        IN  /\ den > 0
            /\ Len(matched) <= den
            /\ Len(matched) = (IF o < e THEN o ELSE e)
            /\ result.kind = "Score"

C27_Witness ==
    /\ Returned("ListContains")
    /\ listContains.allow_extra_entities
    /\ Len(call.output.l) = 2 /\ Len(call.expected.l) = 1
    /\ Len(matched) = 1
    /\ Len(result.metadata) = 1

\* C28: ExactMatch never raises: for strings, numbers, None, lists and dicts
\* on either side, a list or dict against a number or None included, it
\* returns a Score of 0 or 1.
C28_NeverRaises ==
    Done("ExactMatch") =>
        /\ result.kind # "Raise"
        /\ result.kind = "Score" /\ result.score \in {Zero, One}

\* The provider calls made so far that ended as named.
Ended(outcome) == {k \in 1..Len(requests) : requests[k].outcome = outcome}

\* C29: an exception other than RateLimitError leaves the request loop at
\* once, with no wait and no further attempt, and a response ends it too:
\* such a provider call is the last one made, it is what the request returns
\* or raises, and every wait follows a RateLimitError.
C29_FailsFast ==
    call.scorer = "request" =>
        /\ \A k \in Ended("APIError") \cup Ended("response") : k = Len(requests)
        /\ Len(slept) = Cardinality(Ended("RateLimitError"))
        /\ Ended("APIError") # {} => result = Raise("APIError")
        /\ Ended("response") # {} => result = Response(requests[Len(requests)].resp)
        /\ (result.kind = "Raise" /\ result.exc = "APIError") => Ended("APIError") # {}

C29_Witness ==
    /\ call.scorer = "request"
    /\ call.entry = "arun_cached_request"
    /\ result = Raise("APIError")
    /\ Len(requests) = 3 /\ Len(slept) = 2

\* Two requests went to the provider for the same canonicalised value.
AskedTwice ==
    \E i, j \in 1..Len(requests) :
        i # j /\ requests[i].value = requests[j].value

\* Every entry of the cache stays as it is.
EntriesKept == \A e \in CACHE : e \in CACHE'

\* C30: however concurrent evaluations interleave on the shared cache, the
\* provider is asked at most once for each canonicalised value and an entry
\* of the cache is never replaced by a later write.
C30_EmbedOnce == [](~AskedTwice) /\ [][EntriesKept]_vars

====
